---- MODULE Spec2Model ----
(***************************************************************************)
(* Coordinator of the cloud-to-edge dispatch bridge: the gateway's frame   *)
(* handlers (cloud/internal/gateway/gateway.go) running one reader per     *)
(* connection over the shared Job Store (cloud/internal/job), Pending      *)
(* Queue (cloud/internal/queue) and Agent Registry                         *)
(* (cloud/internal/registry).                                              *)
(*                                                                         *)
(* Handlers of different connections run concurrently; a handler is cut    *)
(* into one step per call on a shared collaborator.  UpdateStatus is a     *)
(* Get followed by an UPDATE statement and is therefore two steps.         *)
(***************************************************************************)
EXTENDS Integers, Sequences, FiniteSets, TLC

\* ------------------------------------------------------------------ bounds
MaxJobs   == 2      \* jobs submitted over a run
MaxQueued == 6      \* ids waiting in the queue when a dequeue loop is studied
MaxEvents == 4      \* frames, closes and clock expiries delivered over a run
MaxFaults == 1      \* collaborator failures (store, signer, marshal) injected
MaxConc   == 2      \* largest max_concurrency an agent registers with
MaxRoom   == 1      \* free places of a send buffer that is about to fill up
MaxAttempt == 2     \* largest attempt_id a submission carries
MaxAssigned == 3    \* JobAssigned frames an agent receives over a run
MaxFails  == 2      \* consecutive failed sends of RequestJob
MaxGets   == 3      \* calls of getCachedInputFile over a run
MaxWrites == 5      \* frames an agent writes to its websocket over a run
MaxAcks   == 2      \* RegisterAck frames an agent receives

\* --------------------------------------------------------------- constants
maxDequeueAttempts == 5
SendChanCap == 256      \* make(chan []byte, 256)

Agents == {"a1", "a2"}
Conns  == {"c1", "c2"}
Jobs   == 1..MaxJobs

StatusPending   == "PENDING"
StatusAssigned  == "ASSIGNED"
StatusRunning   == "RUNNING"
StatusSucceeded == "SUCCEEDED"
StatusFailed    == "FAILED"
StatusCanceled  == "CANCELED"
StatusLost      == "LOST"

Statuses == {StatusPending, StatusAssigned, StatusRunning, StatusSucceeded,
             StatusFailed, StatusCanceled, StatusLost}

\* job.Status.IsValid
IsValid(s) == s \in Statuses

\* job.Status.IsTerminal
IsTerminal(s) == s \in {StatusSucceeded, StatusFailed, StatusCanceled, StatusLost}

\* job.Status.CanTransitionTo
CanTransitionTo(s, target) ==
    CASE s = StatusPending  -> target \in {StatusAssigned, StatusCanceled}
      [] s = StatusAssigned -> target \in {StatusRunning, StatusCanceled, StatusLost}
      [] s = StatusRunning  -> target \in {StatusSucceeded, StatusFailed,
                                           StatusCanceled, StatusLost}
      [] OTHER              -> FALSE

\* control.JobStatusEnum values carried by a JobStatus frame
ProtoStatuses == {"UNKNOWN", StatusAssigned, StatusRunning, StatusSucceeded,
                  StatusFailed, StatusCanceled, StatusLost}

\* gateway.jobStatusFromProto
jobStatusFromProto(p) == IF p = "UNKNOWN" THEN StatusPending ELSE p

\* ------------------------------------------------------------------- state
VARIABLES
    store,      \* Job Store: job id -> record (jobs 1..created exist)
    created,    \* number of jobs the submission API has created
    queue,      \* Pending Queue: sequence of job ids, head first
    registry,   \* Registry.agents: agent id -> entry
    conn,       \* per connection: open flag and bound AgentID
    connections,\* Gateway.connections: agent id -> connection
    h,          \* per connection: the reader's position inside a handler
    sent,       \* per connection: frames placed on SendChan so far
    assigned,   \* per job: the JobAssigned frames emitted, as [conn, agent]
    events,     \* frames/closes/expiries delivered so far
    faults,     \* collaborator failures injected so far, by call
    turnedAway, \* agent whose RequestJob the latest event's admission refused
    hist,       \* history of the frames delivered; no handler reads it
    sendq,      \* per connection: frames in SendChan the writer has not taken
    draft,      \* the job.Job value a submission is building, before Create
    client,     \* agent: client.Client counters, its reader and its executors
    pull,       \* agent: the state of Client.jobRequestLoop
    cache,      \* agent: the input cache, its files and the calls into it
    link,       \* agent: Connect, the goroutines it starts and their writes
    redis       \* the Redis list of a RedisQueue run side by side with queue

\* what the gateway's handlers never touch
besides == <<draft, client, pull, cache, link, redis>>

\* no submission under way
\* no agent process is looked at
NoClient == "none"
NoPull == "none"
NoCache == "none"
NoLink == "none"
\* no RedisQueue is looked at
NoRedis == "none"

NoDraft == [stage |-> "none", JobID |-> "", AttemptID |-> 0,
            OutputPrefix |-> <<>>, OutputKey |-> <<>>, OutputExtension |-> <<>>]

\* the coordinator's state
gatewayVars == <<store, created, queue, registry, conn, connections, h, sent,
                 assigned, events, faults, turnedAway, hist, sendq>>

vars == <<store, created, queue, registry, conn, connections, h, sent,
          assigned, events, faults, turnedAway, hist, sendq, besides>>

NoConn == "none"

\* job.Job: the fields the gateway reads or writes
NewJob == [status |-> StatusPending, agent |-> "", lease |-> "",
           attempt |-> 1, outputKey |-> "", stdout |-> ""]

\* registry.AgentInfo; present = FALSE stands for "no map entry"
NoAgent == [present |-> FALSE, max |-> 0, paused |-> FALSE, running |-> 0,
            fresh |-> FALSE]

\* no JobStatus frame
NoFrame == [env |-> "", job |-> 0, att |-> 0, ps |-> "", key |-> "", out |-> ""]

\* the reader of a connection between two frames
Idle == [pc |-> "idle", agent |-> "", job |-> 0, attempts |-> 0,
         target |-> "", site |-> "", out |-> "",
         live |-> FALSE, ipaused |-> FALSE, irunning |-> 0, rolled |-> FALSE,
         was |-> "", mismatch |-> FALSE, taken |-> 0,
         frame |-> NoFrame, redo |-> FALSE]

\* nothing delivered yet: whether the latest frame was a JobStatus from an
\* agent that does not own the job, the agents whose heartbeat ran out with no
\* Register or Heartbeat since, and the JobStatus frame whose terminal status
\* has been written to the store since the latest frame arrived
NoHist == [foreign |-> "", stale |-> {}, last |-> NoFrame]

Init ==
    /\ store = [j \in Jobs |-> NewJob]
    /\ created = 0
    /\ queue = <<>>
    /\ registry = [a \in Agents |-> NoAgent]
    /\ conn = [c \in Conns |-> [open |-> TRUE, AgentID |-> ""]]
    /\ connections = [a \in Agents |-> NoConn]
    /\ h = [c \in Conns |-> Idle]
    /\ sent = [c \in Conns |-> 0]
    /\ assigned = [j \in Jobs |-> <<>>]
    /\ events = 0
    /\ faults = <<>>
    /\ turnedAway = ""
    /\ hist = NoHist
    /\ sendq = [c \in Conns |-> 0]
    /\ draft = NoDraft
    /\ client = NoClient
    /\ pull = NoPull
    /\ cache = NoCache
    /\ link = NoLink
    /\ redis = NoRedis

\* ------------------------------------------------------------ collaborators

\* registry.Registry.GetAgent: the entry, only if present and heartbeat < 60 s old
GetAgent(reg, a) == reg[a].present /\ reg[a].fresh

\* registry.Registry.Register: upsert; an existing entry keeps paused/running
Register(reg, a, m) ==
    IF reg[a].present
    THEN [reg EXCEPT ![a].max = m, ![a].fresh = TRUE]
    ELSE [reg EXCEPT ![a] = [present |-> TRUE, max |-> m, paused |-> FALSE,
                             running |-> 0, fresh |-> TRUE]]

\* registry.Registry.UpdateHeartbeat: overwrite, only if the entry exists
UpdateHeartbeat(reg, a, p, r) ==
    IF reg[a].present
    THEN [reg EXCEPT ![a].fresh = TRUE, ![a].paused = p, ![a].running = r]
    ELSE reg

\* An Unregister that marks the entry offline and keeps it in the map.
UnregisterKeepEntry(reg, a) == [reg EXCEPT ![a].fresh = FALSE]

\* registry.Registry.Unregister
Unregister(reg, a) == [reg EXCEPT ![a] = NoAgent]

\* A queue that pushes on the side it pops from.
EnqueueAtHead(q, id) == <<id>> \o q

\* queue.InMemoryQueue.Enqueue
Enqueue(q, id) == Append(q, id)

\* A dequeue that reads the head and leaves it in place.
DequeueKeep(q) == q

\* queue.InMemoryQueue.Dequeue: the items left after taking items[0]
Dequeue(q) == Tail(q)

\* An admission test that lets an agent at its limit through.
HasCapacityOffByOne(info) == ~(info.running > info.max)

\* gateway.handleRequestJob, capacity test of the admission
HasCapacity(info) == ~(info.running >= info.max)

\* gateway.handleRequestJob, admission: registered, online, unpaused, capacity
Admitted(reg, a) ==
    /\ GetAgent(reg, a)
    /\ ~reg[a].paused
    /\ HasCapacity(reg[a])

Ret(c) == h' = [h EXCEPT ![c] = Idle]

\* `agentConn.SendChan <- data` with room in the channel
Placed(c) ==
    /\ sendq[c] < SendChanCap
    /\ sendq' = [sendq EXCEPT ![c] = @ + 1]
    /\ sent' = [sent EXCEPT ![c] = @ + 1]

\* `agentConn.SendChan <- data` on a full channel: the reader goroutine is
\* parked in the send, with res as its handler state
Parked(c, res) ==
    /\ sendq[c] >= SendChanCap
    /\ h' = [h EXCEPT ![c] = [res EXCEPT !.pc = "send"]]
    /\ UNCHANGED <<sendq, sent>>

\* Connections are numbered in the order in which they are first heard from.
InOrder(c) == c = "c1" \/ events > 0

\* the read loop of connection c takes the next frame off the wire
Receives(c) ==
    /\ conn[c].open
    /\ InOrder(c)
    /\ h[c].pc = "idle"
    /\ events < MaxEvents
    /\ events' = events + 1

CanReceive(c) == Receives(c) /\ turnedAway' = ""

\* what the arrival of any frame does to the history of the previous one
Forget(hs) == [hs EXCEPT !.foreign = "", !.last = NoFrame]

\* ... and a Register or Heartbeat of agent a, or its disconnection, as well
Heard(hs, a) == [Forget(hs) EXCEPT !.stale = @ \ {a}]

\* --------------------------------------------------- connection-level steps

\* api.Handler.HandleCreateJob: store.Create then queue.Enqueue of a fresh
\* id; an Enqueue error is logged and the 201 response is written all the same
HandleCreateJob ==
    /\ created < MaxJobs
    /\ created' = created + 1
    /\ store' = [store EXCEPT ![created + 1] = NewJob]
    /\ \/ /\ queue' = Enqueue(queue, created + 1)
          /\ UNCHANGED faults
       \/ /\ Len(faults) < MaxFaults
          /\ faults' = Append(faults, "enqueue")
          /\ UNCHANGED queue
    /\ UNCHANGED <<registry, conn, connections, h, sent, assigned, events,
                   turnedAway, hist>>
    /\ UNCHANGED <<sendq, besides>>

\* gateway.handleRegister
handleRegister(c, a, m) ==
    /\ CanReceive(c)
    /\ conn' = [conn EXCEPT ![c].AgentID = a]
    /\ connections' = [connections EXCEPT ![a] = c]
    /\ registry' = Register(registry, a, m)
    /\ \/ Placed(c) /\ UNCHANGED h
       \/ Parked(c, Idle)
    /\ hist' = Heard(hist, a)
    /\ UNCHANGED <<store, created, queue, assigned, faults>>
    /\ UNCHANGED besides

\* gateway.handleHeartbeat
handleHeartbeat(c, a, p, r) ==
    /\ CanReceive(c)
    /\ IF conn[c].AgentID = "" \/ a # conn[c].AgentID
       THEN UNCHANGED <<registry, sent, sendq, h>> /\ hist' = Forget(hist)
       ELSE /\ registry' = UpdateHeartbeat(registry, a, p, r)
            /\ \/ Placed(c) /\ UNCHANGED h
               \/ Parked(c, Idle)
            /\ hist' = Heard(hist, a)
    /\ UNCHANGED <<store, created, queue, conn, connections, assigned, faults>>
    /\ UNCHANGED besides

\* gateway.handleConnection, deferred cleanup when the read loop ends.  A
\* handler on another connection that still holds the *AgentInfo keeps the
\* detached struct with the values it had when it left the map.
CloseConnection(c) ==
    /\ CanReceive(c)
    /\ conn' = [conn EXCEPT ![c].open = FALSE]
    /\ LET a == conn[c].AgentID IN
       IF a = ""
       THEN UNCHANGED <<connections, registry, h>> /\ hist' = Forget(hist)
       ELSE /\ connections' = [connections EXCEPT ![a] = NoConn]
            /\ hist' = Heard(hist, a)
            /\ registry' = Unregister(registry, a)
            /\ h' = [d \in Conns |->
                       IF h[d].agent = a /\ h[d].live
                       THEN [h[d] EXCEPT !.live = FALSE,
                                         !.ipaused = registry[a].paused,
                                         !.irunning = registry[a].running]
                       ELSE h[d]]
    /\ UNCHANGED <<store, created, queue, sent, assigned, faults>>
    /\ UNCHANGED <<sendq, besides>>

\* 60 s go by without a heartbeat from agent a (registry.GetAgent's cut-off)
HeartbeatExpires(a) ==
    /\ events < MaxEvents
    /\ events' = events + 1
    /\ turnedAway' = ""
    /\ registry[a].present /\ registry[a].fresh
    /\ registry' = [registry EXCEPT ![a].fresh = FALSE]
    /\ hist' = [Forget(hist) EXCEPT !.stale = @ \cup {a}]
    /\ UNCHANGED <<store, created, queue, conn, connections, h, sent, assigned, faults>>
    /\ UNCHANGED <<sendq, besides>>

\* ------------------------------------------------ store.UpdateStatus (shared)

\* Where a handler goes when UpdateStatus returns an error.
UpdateStatusFailed(c) ==
    IF h[c].site = "js"
    THEN Idle
    ELSE [h[c] EXCEPT !.pc = "rj_revert", !.target = "", !.site = ""]

\* Where a handler goes when UpdateStatus returns nil.
UpdateStatusDone(c) ==
    CASE h[c].site = "assign"   -> [h[c] EXCEPT !.pc = "rj_output", !.target = "", !.site = ""]
      [] h[c].site = "rollback" -> [h[c] EXCEPT !.pc = "rj_revert", !.target = "", !.site = ""]
      [] OTHER -> IF IsTerminal(h[c].target)
                  THEN [h[c] EXCEPT !.pc = "js_release", !.target = "", !.site = ""]
                  ELSE Idle

\* job.SQLiteStore.UpdateStatus, first half: IsValid, s.Get, CanTransitionTo.
\* The dispatcher's forward write may also meet a backend error.
UpdateStatusGet(c) ==
    /\ h[c].pc = "us_read"
    /\ \/ /\ IsValid(h[c].target)
          /\ CanTransitionTo(store[h[c].job].status, h[c].target)
          /\ h' = [h EXCEPT ![c].pc = "us_write"]
          /\ UNCHANGED faults
       \/ /\ ~(IsValid(h[c].target)
               /\ CanTransitionTo(store[h[c].job].status, h[c].target))
          /\ h' = [h EXCEPT ![c] = UpdateStatusFailed(c)]
          /\ UNCHANGED faults
       \/ /\ h[c].site = "assign"
          /\ Len(faults) < MaxFaults
          /\ faults' = Append(faults, "status")
          /\ h' = [h EXCEPT ![c] = UpdateStatusFailed(c)]
    /\ UNCHANGED <<store, created, queue, registry, conn, connections, sent,
                   assigned, events, turnedAway, hist>>
    /\ UNCHANGED <<sendq, besides>>

\* job.SQLiteStore.UpdateStatus, second half: UPDATE jobs SET status = ?
UpdateStatusExec(c) ==
    /\ h[c].pc = "us_write"
    /\ store' = [store EXCEPT ![h[c].job].status = h[c].target]
    /\ h' = [h EXCEPT ![c] = UpdateStatusDone(c)]
    /\ hist' = IF h[c].site = "js" /\ IsTerminal(h[c].target)
               THEN [hist EXCEPT !.last = h[c].frame] ELSE hist
    /\ UNCHANGED <<created, queue, registry, conn, connections, sent,
                   assigned, events, faults, turnedAway>>
    /\ UNCHANGED <<sendq, besides>>

\* ------------------------------------------------- gateway.handleRequestJob

\* lines 229-265: payload/envelope consistency and admission
handleRequestJob(c, env, payload) ==
    /\ Receives(c)
    /\ IF (payload # "" /\ payload # env) \/ env = ""
       THEN UNCHANGED h /\ turnedAway' = ""
       ELSE IF ~Admitted(registry, env)
       THEN UNCHANGED h /\ turnedAway' = env
       ELSE /\ h' = [h EXCEPT ![c] = [Idle EXCEPT !.pc = "rj_dequeue",
                                                  !.agent = env, !.live = TRUE]]
            /\ turnedAway' = ""
    /\ hist' = Forget(hist)
    /\ UNCHANGED <<store, created, queue, registry, conn, connections, sent,
                   assigned, faults>>
    /\ UNCHANGED <<sendq, besides>>

\* lines 274-283: jobQueue.Dequeue
rjDequeue(c) ==
    /\ h[c].pc = "rj_dequeue"
    /\ IF queue = <<>>
       THEN Ret(c) /\ UNCHANGED queue
       ELSE /\ queue' = Dequeue(queue)
            /\ h' = [h EXCEPT ![c].pc = "rj_get", ![c].job = Head(queue),
                              ![c].taken = @ + 1]
    /\ UNCHANGED <<store, created, registry, conn, connections, sent,
                   assigned, events, faults, turnedAway, hist>>
    /\ UNCHANGED <<sendq, besides>>

\* A dequeue loop that goes round once more than maxDequeueAttempts allows.
NextAttemptOneMore(c) ==
    IF h[c].attempts + 1 <= maxDequeueAttempts
    THEN [h[c] EXCEPT !.pc = "rj_dequeue", !.job = 0, !.attempts = @ + 1]
    ELSE Idle

\* the `continue` of the dequeue loop and the test after it (lines 274, 305)
NextAttempt(c) ==
    IF h[c].attempts + 1 < maxDequeueAttempts
    THEN [h[c] EXCEPT !.pc = "rj_dequeue", !.job = 0, !.attempts = @ + 1]
    ELSE Idle

\* lines 285-324: jobStore.Get, PENDING test, attempt_id normalisation
rjGet(c) ==
    /\ h[c].pc = "rj_get"
    /\ LET j == h[c].job IN
       \/ /\ store[j].status = StatusPending
          /\ h' = [h EXCEPT ![c].pc = "rj_commit", ![c].attempts = 0]
          /\ store' = IF store[j].attempt < 1
                      THEN [store EXCEPT ![j].attempt = 1] ELSE store
          /\ UNCHANGED faults
       \/ /\ store[j].status # StatusPending
          /\ h' = [h EXCEPT ![c] = NextAttempt(c)]
          /\ UNCHANGED <<store, faults>>
       \/ /\ Len(faults) < MaxFaults
          /\ faults' = Append(faults, "get")
          /\ h' = [h EXCEPT ![c] = NextAttempt(c)]
          /\ UNCHANGED store
    /\ UNCHANGED <<created, queue, registry, conn, connections, sent,
                   assigned, events, turnedAway, hist>>
    /\ UNCHANGED <<sendq, besides>>

\* lines 340-355: GenerateDownloadURL or GenerateUploadURL fails
rjSignFailed(c) ==
    /\ h[c].pc = "rj_commit"
    /\ Len(faults) < MaxFaults
    /\ faults' = Append(faults, "sign")
    /\ queue' = Enqueue(queue, h[c].job)
    /\ Ret(c)
    /\ UNCHANGED <<store, created, registry, conn, connections, sent,
                   assigned, events, turnedAway, hist>>
    /\ UNCHANGED <<sendq, besides>>

\* lines 357-368: both URLs signed, lease drawn, jobStore.UpdateAssignment
rjUpdateAssignment(c) ==
    /\ h[c].pc = "rj_commit"
    /\ \/ /\ store' = [store EXCEPT ![h[c].job].agent = h[c].agent,
                                    ![h[c].job].lease = "lease"]
          /\ h' = [h EXCEPT ![c].pc = "us_read", ![c].site = "assign",
                            ![c].target = StatusAssigned]
          /\ UNCHANGED faults
       \/ /\ Len(faults) < MaxFaults
          /\ faults' = Append(faults, "assignment")
          /\ h' = [h EXCEPT ![c].pc = "rj_requeue"]
          /\ UNCHANGED store
    /\ UNCHANGED <<created, queue, registry, conn, connections, sent,
                   assigned, events, turnedAway, hist>>
    /\ UNCHANGED <<sendq, besides>>

\* the rollback of lines 385 and 415 starts: UpdateStatus(jobID, PENDING)
StartRollback(c) ==
    [h[c] EXCEPT !.pc = "us_read", !.site = "rollback",
                 !.target = StatusPending, !.rolled = TRUE]

\* lines 380-389: jobStore.UpdateOutput
rjUpdateOutput(c) ==
    /\ h[c].pc = "rj_output"
    /\ \/ /\ store' = [store EXCEPT ![h[c].job].outputKey = "key"]
          /\ h' = [h EXCEPT ![c].pc = "rj_send"]
          /\ UNCHANGED faults
       \/ /\ Len(faults) < MaxFaults
          /\ faults' = Append(faults, "output")
          /\ h' = [h EXCEPT ![c] = StartRollback(c)]
          /\ UNCHANGED store
    /\ UNCHANGED <<created, queue, registry, conn, connections, sent,
                   assigned, events, turnedAway, hist>>
    /\ UNCHANGED <<sendq, besides>>

\* lines 411-419: proto.Marshal of the JobAssigned fails
rjMarshalFailed(c) ==
    /\ h[c].pc = "rj_send"
    /\ Len(faults) < MaxFaults
    /\ faults' = Append(faults, "marshal")
    /\ h' = [h EXCEPT ![c] = StartRollback(c)]
    /\ UNCHANGED <<store, created, queue, registry, conn, connections, sent,
                   assigned, events, turnedAway, hist>>
    /\ UNCHANGED <<sendq, besides>>

\* lines 421-425: UpdateHeartbeat(agentID, agentInfo.Paused,
\* agentInfo.RunningJobs+1) through the pointer GetAgent returned, then the
\* frame goes on the connection's SendChan
rjSend(c) ==
    /\ h[c].pc = "rj_send"
    /\ LET a == h[c].agent
           p == IF h[c].live THEN registry[a].paused ELSE h[c].ipaused
           r == IF h[c].live THEN registry[a].running ELSE h[c].irunning
       IN registry' = UpdateHeartbeat(registry, a, p, r + 1)
    /\ \/ /\ Placed(c)
          /\ assigned' = [assigned EXCEPT ![h[c].job] =
                              Append(@, [conn |-> c, agent |-> h[c].agent])]
          /\ Ret(c)
       \/ /\ Parked(c, h[c])
          /\ UNCHANGED assigned
    /\ UNCHANGED <<store, created, queue, conn, connections, events, faults,
                   turnedAway, hist>>
    /\ UNCHANGED besides

\* lines 193, 226, 425: the parked send goes through once the writer has
\* made room, and the handler returns
sendResumes(c) ==
    /\ h[c].pc = "send"
    /\ Placed(c)
    /\ assigned' = IF h[c].job = 0 THEN assigned
                   ELSE [assigned EXCEPT ![h[c].job] =
                            Append(@, [conn |-> c, agent |-> h[c].agent])]
    /\ Ret(c)
    /\ UNCHANGED <<store, created, queue, registry, conn, connections,
                   events, faults, turnedAway, hist>>
    /\ UNCHANGED besides

\* lines 100-111: the send goroutine takes the next frame off SendChan and
\* writes it to the socket; a peer that has stopped reading lets no more
\* than MaxRoom writes through
writeMessage(c) ==
    /\ sendq[c] > 0
    /\ sendq[c] + MaxRoom > SendChanCap
    /\ sendq' = [sendq EXCEPT ![c] = @ - 1]
    /\ UNCHANGED <<store, created, queue, registry, conn, connections, h,
                   sent, assigned, events, faults, turnedAway, hist>>
    /\ UNCHANGED besides

\* lines 375, 386, 416: jobStore.UpdateAssignment(jobID, "", "", nil)
rjRevertAssignment(c) ==
    /\ h[c].pc = "rj_revert"
    /\ store' = [store EXCEPT ![h[c].job].agent = "", ![h[c].job].lease = ""]
    /\ h' = [h EXCEPT ![c].pc = "rj_requeue"]
    /\ UNCHANGED <<created, queue, registry, conn, connections, sent,
                   assigned, events, faults, turnedAway, hist>>
    /\ UNCHANGED <<sendq, besides>>

\* lines 366, 376, 387, 417: jobQueue.Enqueue(ctx, jobID); return
rjReEnqueue(c) ==
    /\ h[c].pc = "rj_requeue"
    /\ queue' = Enqueue(queue, h[c].job)
    /\ Ret(c)
    /\ UNCHANGED <<store, created, registry, conn, connections, sent,
                   assigned, events, faults, turnedAway, hist>>
    /\ UNCHANGED <<sendq, besides>>

\* -------------------------------------------------- gateway.handleJobStatus

OutputKeys == {"", "key", "wrong"}
Outputs    == {"", "out"}
AttemptIDs == {1, 2}

\* lines 519-549: a reported output_key must equal the stored one
OutputKeyRejected(reported, stored) ==
    reported # "" /\ (stored = "" \/ reported # stored)

\* Frame checks that leave out the ownership test of line 458.
AcceptedFromAnyAgent(c, env, j, att) ==
    /\ env # ""
    /\ conn[c].AgentID = env
    /\ j \in 1..created
    /\ att = store[j].attempt
    /\ ~IsTerminal(store[j].status)

\* lines 428-482: the checks made on the frame and on the record read by Get
Accepted(c, env, j, att) ==
    /\ env # ""
    /\ conn[c].AgentID = env
    /\ j \in 1..created
    /\ store[j].agent = env
    /\ att = store[j].attempt
    /\ ~IsTerminal(store[j].status)

\* lines 484-625: the status switch, up to the first store write it makes
StatusSwitch(j, newStatus, key, out) ==
    LET go(pc, target) == [Idle EXCEPT !.pc = pc, !.job = j, !.site = "js",
                                       !.target = target, !.out = out,
                                       !.was = store[j].status]
    IN CASE newStatus = StatusRunning ->
              IF out # "" THEN go("js_stdout", StatusRunning)
                          ELSE go("us_read", StatusRunning)
         [] newStatus = StatusSucceeded ->
              IF OutputKeyRejected(key, store[j].outputKey)
              THEN [go("js_stdout", StatusFailed) EXCEPT !.mismatch = TRUE]
              ELSE go("js_stdout", StatusSucceeded)
         [] newStatus = StatusFailed -> go("js_stdout", StatusFailed)
         [] OTHER ->
              IF CanTransitionTo(store[j].status, newStatus)
              THEN go("us_read", newStatus)
              ELSE Idle

\* the reader of connection d is inside handleJobStatus for job j
InJobStatus(d, j) ==
    /\ h[d].job = j
    /\ \/ h[d].pc \in {"js_stdout", "js_release"}
       \/ h[d].pc \in {"us_read", "us_write"} /\ h[d].site = "js"

\* the latest JobStatus frame came, over the sender's own connection, from an
\* agent the job is not assigned to ("owner") or names another attempt
Foreign(c, env, j, att) ==
    IF conn[c].AgentID # env \/ j \notin 1..created THEN ""
    ELSE IF store[j].agent # env THEN "owner"
    ELSE IF att # store[j].attempt THEN "attempt"
    ELSE ""

handleJobStatus(c, env, j, att, ps, key, out) ==
    /\ CanReceive(c)
    /\ LET frame == [env |-> env, job |-> j, att |-> att, ps |-> ps,
                     key |-> key, out |-> out]
           again == /\ hist.last = frame
                    /\ \A d \in Conns : ~InJobStatus(d, j)
           next  == StatusSwitch(j, jobStatusFromProto(ps), key, out)
       IN IF Accepted(c, env, j, att)
          THEN /\ h' = [h EXCEPT ![c] =
                         IF next.pc = "idle" THEN Idle
                         ELSE [next EXCEPT !.agent = env, !.frame = frame,
                                           !.redo = again]]
               /\ hist' = [hist EXCEPT !.foreign = Foreign(c, env, j, att),
                                       !.last = NoFrame]
          ELSE /\ UNCHANGED h
               /\ hist' = [hist EXCEPT !.foreign = Foreign(c, env, j, att),
                                       !.last = NoFrame]
    /\ UNCHANGED <<store, created, queue, registry, conn, connections, sent,
                   assigned, faults>>
    /\ UNCHANGED <<sendq, besides>>

\* lines 492, 511, 575: jobStore.UpdateStdoutStderr
jsUpdateStdoutStderr(c) ==
    /\ h[c].pc = "js_stdout"
    /\ store' = [store EXCEPT ![h[c].job].stdout = h[c].out]
    /\ h' = [h EXCEPT ![c].pc = "us_read", ![c].out = ""]
    /\ UNCHANGED <<created, queue, registry, conn, connections, sent,
                   assigned, events, faults, turnedAway, hist>>
    /\ UNCHANGED <<sendq, besides>>

\* lines 527-530, 563-566, 590-593, 608-611: release of the agent's capacity
jsRelease(c) ==
    /\ h[c].pc = "js_release"
    /\ LET a == h[c].agent IN
       registry' = IF GetAgent(registry, a) /\ registry[a].running > 0
                   THEN UpdateHeartbeat(registry, a, registry[a].paused,
                                        registry[a].running - 1)
                   ELSE registry
    /\ Ret(c)
    /\ UNCHANGED <<store, created, queue, conn, connections, sent,
                   assigned, events, faults, turnedAway, hist>>
    /\ UNCHANGED <<sendq, besides>>

\* -------------------------------------------------------------------- Next

\* Frames that differ only in fields the handler never reads on the path it
\* takes lead to the same step; one representative of each is delivered.
StatusesWorthSending(c, env, j, att) ==
    IF Accepted(c, env, j, att) THEN ProtoStatuses ELSE {"UNKNOWN"}

KeysWorthSending(ps) == IF ps = StatusSucceeded THEN OutputKeys ELSE {""}

OutputsWorthSending(ps) ==
    IF ps \in {StatusRunning, StatusSucceeded, StatusFailed} THEN Outputs ELSE {""}

Next ==
    \/ HandleCreateJob
    \/ \E c \in Conns, a \in Agents, m \in 1..MaxConc : handleRegister(c, a, m)
    \/ \E c \in Conns, a \in Agents :
          \E p \in (IF a = conn[c].AgentID THEN BOOLEAN ELSE {FALSE}),
             r \in (IF a = conn[c].AgentID THEN 0..MaxConc ELSE {0}) :
             handleHeartbeat(c, a, p, r)
    \/ \E c \in Conns : CloseConnection(c)
    \/ \E a \in Agents : HeartbeatExpires(a)
    \/ \E c \in Conns, env \in Agents, payload \in Agents \cup {""} :
          handleRequestJob(c, env, payload)
    \/ \E c \in Conns : rjDequeue(c)
    \/ \E c \in Conns : rjGet(c)
    \/ \E c \in Conns : rjSignFailed(c)
    \/ \E c \in Conns : rjUpdateAssignment(c)
    \/ \E c \in Conns : UpdateStatusGet(c)
    \/ \E c \in Conns : UpdateStatusExec(c)
    \/ \E c \in Conns : rjUpdateOutput(c)
    \/ \E c \in Conns : rjMarshalFailed(c)
    \/ \E c \in Conns : rjSend(c)
    \/ \E c \in Conns : rjRevertAssignment(c)
    \/ \E c \in Conns : rjReEnqueue(c)
    \/ \E c \in Conns, env \in Agents, j \in Jobs, att \in AttemptIDs :
          \E ps \in StatusesWorthSending(c, env, j, att) :
             \E key \in KeysWorthSending(ps), out \in OutputsWorthSending(ps) :
                handleJobStatus(c, env, j, att, ps, key, out)
    \/ \E c \in Conns : jsUpdateStdoutStderr(c)
    \/ \E c \in Conns : jsRelease(c)

Spec == Init /\ [][Next]_vars

\* The coordinator with one job under way: a1 registered on c1 (Register),
\* asked for work (RequestJob), was sent job 1 and reported it RUNNING.  The
\* run continues from there with MaxEvents - 1 further events.
InitRunning ==
    /\ \E m \in 1..MaxConc :
          registry = [a \in Agents |->
                        IF a = "a1"
                        THEN [present |-> TRUE, max |-> m, paused |-> FALSE,
                              running |-> 1, fresh |-> TRUE]
                        ELSE NoAgent]
    /\ store = [j \in Jobs |->
                  IF j = 1
                  THEN [NewJob EXCEPT !.status = StatusRunning, !.agent = "a1",
                                      !.lease = "lease", !.outputKey = "key"]
                  ELSE NewJob]
    /\ created = 1
    /\ queue = <<>>
    /\ conn = [c \in Conns |->
                 [open |-> TRUE, AgentID |-> IF c = "c1" THEN "a1" ELSE ""]]
    /\ connections = [a \in Agents |-> IF a = "a1" THEN "c1" ELSE NoConn]
    /\ h = [c \in Conns |-> Idle]
    /\ sent = [c \in Conns |-> IF c = "c1" THEN 2 ELSE 0]
    /\ assigned = [j \in Jobs |->
                     IF j = 1 THEN <<[conn |-> "c1", agent |-> "a1"]>> ELSE <<>>]
    /\ events = 1
    /\ faults = <<>>
    /\ turnedAway = ""
    /\ hist = NoHist
    /\ sendq = [c \in Conns |-> 0]
    /\ draft = NoDraft
    /\ client = NoClient
    /\ pull = NoPull
    /\ cache = NoCache
    /\ link = NoLink
    /\ redis = NoRedis

SpecRunning == InitRunning /\ [][Next]_vars

\* A connection whose peer has stopped reading: the writer is held up in
\* WriteMessage and SendChan has filled up to its last MaxRoom places.  a1 is
\* registered on c1 and job 1 waits in the queue; two more frames arrive.
InitSend ==
    /\ \E n \in (SendChanCap - MaxRoom)..SendChanCap :
          /\ sendq = [c \in Conns |-> IF c = "c1" THEN n ELSE 0]
          /\ sent = sendq
    /\ store = [j \in Jobs |-> NewJob]
    /\ created = 1
    /\ queue = <<1>>
    /\ registry = [a \in Agents |->
                     IF a = "a1"
                     THEN [present |-> TRUE, max |-> MaxConc, paused |-> FALSE,
                           running |-> 0, fresh |-> TRUE]
                     ELSE NoAgent]
    /\ conn = [c \in Conns |->
                 [open |-> TRUE, AgentID |-> IF c = "c1" THEN "a1" ELSE ""]]
    /\ connections = [a \in Agents |-> IF a = "a1" THEN "c1" ELSE NoConn]
    /\ h = [c \in Conns |-> Idle]
    /\ assigned = [j \in Jobs |-> <<>>]
    /\ events = MaxEvents - 2
    /\ faults = <<>>
    /\ turnedAway = ""
    /\ hist = NoHist
    /\ draft = NoDraft
    /\ client = NoClient
    /\ pull = NoPull
    /\ cache = NoCache
    /\ link = NoLink
    /\ redis = NoRedis

NextSend ==
    \/ Next
    \/ \E c \in Conns : sendResumes(c)
    \/ \E c \in Conns : writeMessage(c)

SpecSend == InitSend /\ [][NextSend]_vars

\* ------------------------------------------- output paths of a submitted job
\* Paths are sequences of pieces; "jobs/", a job id, "/" and a number are
\* pieces, so that a prefix of pieces is a prefix of bytes.

JobIDs == {"J1", "J2"}

\* job.startsWith
startsWith(str, prefix) ==
    Len(str) >= Len(prefix) /\ SubSeq(str, 1, Len(prefix)) = prefix

\* job.intToString
intToString(n) == ToString(n)

\* job.Job.generateDefaultOutputPrefix
generateDefaultOutputPrefix(j) ==
    <<"jobs/", j.JobID, "/", intToString(j.AttemptID), "/">>

\* job.Job.EnsureOutputPrefix
EnsureOutputPrefix(j) ==
    LET expectedPrefix == generateDefaultOutputPrefix(j) IN
    IF j.OutputPrefix = <<>> /\ j.OutputKey = <<>>
    THEN [j EXCEPT !.OutputPrefix = expectedPrefix]
    ELSE IF j.OutputPrefix # <<>>
    THEN IF j.OutputPrefix # expectedPrefix
            /\ ~startsWith(j.OutputPrefix, expectedPrefix)
         THEN [j EXCEPT !.OutputPrefix = expectedPrefix]
         ELSE j
    ELSE [j EXCEPT !.OutputPrefix = expectedPrefix, !.OutputKey = <<>>]

\* the values a client may put into output_prefix or output_key: nothing,
\* the pattern for some job id and attempt, a part of it, or more than it
SubmittedPaths ==
    {<<"x">>} \cup
    UNION {{SubSeq(<<"jobs/", i, "/", intToString(a), "/", "x">>, 1, n) :
              n \in 0..6} : i \in JobIDs, a \in 1..MaxAttempt}

SubmittedExtensions == {<<>>, <<"bin">>, <<".", "bin">>}

\* lines 219-227 of the API handler, 329-336 of the gateway: the default
\* extension and the leading dot
Extension(e) ==
    IF e = <<>> THEN <<"bin">>
    ELSE IF Head(e) = "." THEN Tail(e) ELSE e

\* A submission arrives: uuid.New() has drawn the job id, the request body
\* carries attempt_id, output_prefix, output_key and output_extension.
InitCreate ==
    /\ draft \in [stage : {"request"}, JobID : JobIDs,
                  AttemptID : 0..MaxAttempt,
                  OutputPrefix : SubmittedPaths, OutputKey : SubmittedPaths,
                  OutputExtension : SubmittedExtensions]
    /\ store = [j \in Jobs |-> NewJob]
    /\ created = 0
    /\ queue = <<>>
    /\ registry = [a \in Agents |-> NoAgent]
    /\ conn = [c \in Conns |-> [open |-> TRUE, AgentID |-> ""]]
    /\ connections = [a \in Agents |-> NoConn]
    /\ h = [c \in Conns |-> Idle]
    /\ sent = [c \in Conns |-> 0]
    /\ assigned = [j \in Jobs |-> <<>>]
    /\ events = 0
    /\ faults = <<>>
    /\ turnedAway = ""
    /\ hist = NoHist
    /\ sendq = [c \in Conns |-> 0]
    /\ client = NoClient
    /\ pull = NoPull
    /\ cache = NoCache
    /\ link = NoLink
    /\ redis = NoRedis

\* api.Handler.HandleCreateJob up to Validate: attempt_id and extension
\* defaults, the job.Job literal, EnsureOutputPrefix
buildJob ==
    /\ draft.stage = "request"
    /\ draft' = EnsureOutputPrefix(
                   [draft EXCEPT !.stage = "built",
                                 !.AttemptID = IF @ < 1 THEN 1 ELSE @,
                                 !.OutputExtension = Extension(@)])
    /\ UNCHANGED <<gatewayVars, client, pull, cache, link, redis>>

\* job.SQLiteStore.Create: Validate, EnsureOutputPrefix, INSERT
storeCreate ==
    /\ draft.stage = "built"
    /\ draft' = [EnsureOutputPrefix(draft) EXCEPT !.stage = "stored"]
    /\ UNCHANGED <<gatewayVars, client, pull, cache, link, redis>>

\* gateway.handleRequestJob lines 326-338 and 381: the output prefix and key
\* generated for the dispatch, written by UpdateOutput
dispatchOutput ==
    /\ draft.stage = "stored"
    /\ LET outputPrefix == <<"jobs/", draft.JobID, "/",
                             intToString(draft.AttemptID), "/">>
           outputKey == outputPrefix \o <<"output.">> \o
                        Extension(draft.OutputExtension)
       IN draft' = [draft EXCEPT !.stage = "dispatched",
                                 !.OutputPrefix = outputPrefix,
                                 !.OutputKey = outputKey]
    /\ UNCHANGED <<gatewayVars, client, pull, cache, link, redis>>

NextCreate ==
    \/ buildJob
    \/ storeCreate
    \/ dispatchOutput

SpecCreate == InitCreate /\ [][NextCreate]_vars

\* A job whose dispatch failed after UpdateStatus(ASSIGNED): the rollback
\* (lines 385-387, 415-417) left the status, cleared the assignment and put
\* the id back into the queue.
StaleJob == [NewJob EXCEPT !.status = StatusAssigned, !.attempt = 1]

\* The dequeue loop studied by itself: MaxQueued ids wait in the queue, each
\* of a job that is PENDING or stale; a1 is registered on c1.  Up to two
\* RequestJob frames are then handled.
InitDequeue ==
    /\ store \in [1..MaxQueued -> {NewJob, StaleJob}]
    /\ created = MaxQueued
    /\ queue = [i \in 1..MaxQueued |-> i]
    /\ registry = [a \in Agents |->
                     IF a = "a1"
                     THEN [present |-> TRUE, max |-> MaxConc, paused |-> FALSE,
                           running |-> 0, fresh |-> TRUE]
                     ELSE NoAgent]
    /\ conn = [c \in Conns |->
                 [open |-> TRUE, AgentID |-> IF c = "c1" THEN "a1" ELSE ""]]
    /\ connections = [a \in Agents |-> IF a = "a1" THEN "c1" ELSE NoConn]
    /\ h = [c \in Conns |-> Idle]
    /\ sent = [c \in Conns |-> IF c = "c1" THEN 1 ELSE 0]
    /\ assigned = [j \in 1..MaxQueued |-> <<>>]
    /\ events = MaxEvents - 2
    /\ faults = <<>>
    /\ turnedAway = ""
    /\ hist = NoHist
    /\ sendq = [c \in Conns |-> 0]
    /\ draft = NoDraft
    /\ client = NoClient
    /\ pull = NoPull
    /\ cache = NoCache
    /\ link = NoLink
    /\ redis = NoRedis

\* the steps of handleRequestJob after the frame was admitted
StepDequeue ==
    \/ \E c \in Conns : rjDequeue(c)
    \/ \E c \in Conns : rjGet(c)
    \/ \E c \in Conns : rjSignFailed(c)
    \/ \E c \in Conns : rjUpdateAssignment(c)
    \/ \E c \in Conns : UpdateStatusGet(c)
    \/ \E c \in Conns : UpdateStatusExec(c)
    \/ \E c \in Conns : rjUpdateOutput(c)
    \/ \E c \in Conns : rjMarshalFailed(c)
    \/ \E c \in Conns : rjSend(c)
    \/ \E c \in Conns : rjRevertAssignment(c)
    \/ \E c \in Conns : rjReEnqueue(c)

NextDequeue ==
    \/ \E c \in Conns, env \in Agents, payload \in Agents \cup {""} :
          handleRequestJob(c, env, payload)
    \/ StepDequeue

\* every call the handler makes returns and its goroutine is scheduled again
SpecDequeue == InitDequeue /\ [][NextDequeue]_vars /\ WF_vars(StepDequeue)

\* ------------------------------------------------------- the agent's client
\* client.Client of src/agent: one reader goroutine (readLoop) handles the
\* frames of the gateway one after another, every accepted JobAssigned gets
\* a goroutine of its own (processJob), and jobRequestLoop asks for work.
\* The JobAssigned frames carry the job ids 1, 2, ... in their order of
\* arrival.

AJobs == 1..MaxAssigned

requestJobChanCap == 1  \* make(chan struct{}, 1)
minBackoff == 500       \* 500 * time.Millisecond
maxBackoff == 30000     \* 30 * time.Second

\* the gateway at rest, while the agent is looked at
GatewayIdle ==
    /\ store = [j \in Jobs |-> NewJob]
    /\ created = 0
    /\ queue = <<>>
    /\ registry = [a \in Agents |-> NoAgent]
    /\ conn = [c \in Conns |-> [open |-> TRUE, AgentID |-> ""]]
    /\ connections = [a \in Agents |-> NoConn]
    /\ h = [c \in Conns |-> Idle]
    /\ sent = [c \in Conns |-> 0]
    /\ assigned = [j \in Jobs |-> <<>>]
    /\ events = 0
    /\ faults = <<>>
    /\ turnedAway = ""
    /\ hist = NoHist
    /\ sendq = [c \in Conns |-> 0]
    /\ draft = NoDraft

\* client.New and Connect, after the RegisterAck started jobRequestLoop:
\* nothing runs, the backoff is at its first value.  paused and
\* max_concurrency are what the operator configured.
InitAgent ==
    /\ GatewayIdle
    /\ \E p \in BOOLEAN, m \in 1..MaxConc :
          client = [paused |-> p, maxConcurrency |-> m, runningJobs |-> 0,
                    connected |-> TRUE, arrived |-> 0, reader |-> 0,
                    exec |-> [j \in AJobs |-> "none"],
                    out |-> [j \in AJobs |-> ""],
                    uploaded |-> [j \in AJobs |-> FALSE],
                    reports |-> [j \in AJobs |-> <<>>],
                    status |-> [j \in AJobs |-> <<>>]]
    /\ pull = [backoff |-> minBackoff, requestJobChan |-> 0, fails |-> 0,
               last |-> "none"]
    /\ cache = NoCache
    /\ link = NoLink
    /\ redis = NoRedis

\* Client.canAcceptJob with an off-by-one comparison
canAcceptJobAtLimit == ~client.paused /\ client.runningJobs <= client.maxConcurrency

\* Client.canAcceptJob
canAcceptJob == ~client.paused /\ client.runningJobs < client.maxConcurrency

\* Client.reportJobStatusWithOutput with a write that is repeated
reportJobStatusWithOutputTwice(cl, j, s, key) ==
    LET called == [cl EXCEPT !.reports[j] =
                                Append(@, [status |-> s, key |-> key])]
    IN IF cl.connected
       THEN [called EXCEPT !.status[j] = Append(Append(@, s), s)]
       ELSE called

\* Client.reportJobStatusWithOutput: the report is made (reports), and the
\* frame is written to the websocket (status); a failed write is logged and
\* the status is not sent again
reportJobStatusWithOutput(cl, j, s, key) ==
    LET called == [cl EXCEPT !.reports[j] =
                                Append(@, [status |-> s, key |-> key])]
    IN IF cl.connected
       THEN [called EXCEPT !.status[j] = Append(@, s)]
       ELSE called

\* Client.reportJobStatus: a report without stdout and stderr; every call
\* in the client passes an empty output_key
reportJobStatus(cl, j, s) == reportJobStatusWithOutput(cl, j, s, "")

\* Client.decrementRunningJobs
decrementRunningJobs(cl) ==
    IF cl.runningJobs > 0 THEN [cl EXCEPT !.runningJobs = @ - 1] ELSE cl

\* Client.incrementRunningJobs
incrementRunningJobs(cl) == [cl EXCEPT !.runningJobs = @ + 1]

\* The websocket breaks: from now on ReadMessage and WriteMessage fail.
\* Nothing reconnects; the goroutines that run keep running.
connectionLost ==
    /\ client.connected
    /\ client' = [client EXCEPT !.connected = FALSE]
    /\ UNCHANGED <<gatewayVars, draft, pull, cache, link, redis>>

\* Client.handleJobAssigned up to the capacity check: a frame that cannot be
\* accepted is answered with FAILED; an accepted one goes on to the counter
handleJobAssigned ==
    /\ client.connected
    /\ client.reader = 0
    /\ client.arrived < MaxAssigned
    /\ LET j == client.arrived + 1
           cl == [client EXCEPT !.arrived = j]
       IN client' = IF canAcceptJob
                    THEN [cl EXCEPT !.reader = j]
                    ELSE reportJobStatus(cl, j, StatusFailed)
    /\ UNCHANGED <<gatewayVars, draft, pull, cache, link, redis>>

\* Client.handleJobAssigned lines 1130-1134: incrementRunningJobs, then
\* go c.processJob(assigned)
startProcessJob ==
    /\ client.reader # 0
    /\ client' = [incrementRunningJobs(client) EXCEPT
                     !.exec[client.reader] = "started", !.reader = 0]
    /\ UNCHANGED <<gatewayVars, draft, pull, cache, link, redis>>

\* Client.processJob line 1153: the RUNNING report
reportRunning(j) ==
    /\ client.exec[j] = "started"
    /\ client' = [reportJobStatus(client, j, StatusRunning) EXCEPT
                     !.exec[j] = "working"]
    /\ UNCHANGED <<gatewayVars, draft, pull, cache, link, redis>>

\* the ways through processJob and processForwardJob
Paths == {"missing_command", "auth", "download", "execute", "upload",
          "forward_http", "success"}

\* Client.executeCommand returned without an error (processJob line 1224):
\* the command left an output file with data in it, or none
executeCommand(j, file) ==
    /\ client.exec[j] = "working"
    /\ client' = [client EXCEPT !.exec[j] = "executed",
                                !.out[j] = IF file THEN "file" ELSE "none"]
    /\ UNCHANGED <<gatewayVars, draft, pull, cache, link, redis>>

\* Client.uploadOutput returned nil (processJob line 1268): the PUT to the
\* signed output URL was answered with 200 or 204
uploadOutput(j) ==
    /\ client.exec[j] = "executed"
    /\ client.out[j] = "file"
    /\ ~client.uploaded[j]
    /\ client' = [client EXCEPT !.uploaded[j] = TRUE]
    /\ UNCHANGED <<gatewayVars, draft, pull, cache, link, redis>>

\* processJob line 1239 with the key set whatever the command produced
outputKeyToReportAlways(j) == "key"

\* processJob lines 1239-1280: outputKeyToReport is the assigned output_key
\* after the upload of an output file, and empty otherwise
outputKeyToReport(j) == IF client.out[j] = "file" THEN "key" ELSE ""

\* where a way through processJob leaves the function
Leaves(j, path) ==
    CASE path = "success" ->
            /\ client.exec[j] = "executed"
            /\ client.out[j] = "none" \/ client.uploaded[j]
      [] path = "upload" ->
            /\ client.exec[j] = "executed"
            /\ client.out[j] = "file"
            /\ ~client.uploaded[j]
      [] OTHER -> client.exec[j] = "working"

\* Client.processJob and processForwardJob, the report before each return
\* statement: each way ends in one report, FAILED with an empty output_key
\* or SUCCEEDED with outputKeyToReport
finishJob(j, path) ==
    /\ Leaves(j, path)
    /\ client' = [(IF path = "success"
                   THEN reportJobStatusWithOutput(client, j, StatusSucceeded,
                                                  outputKeyToReport(j))
                   ELSE reportJobStatusWithOutput(client, j, StatusFailed, ""))
                  EXCEPT !.exec[j] = "reported"]
    /\ UNCHANGED <<gatewayVars, draft, pull, cache, link, redis>>

\* Client.processJob lines 1143-1148 with a send that gives up always
signalRequestLost(p) == p

\* Client.processJob lines 1143-1148: the select with a default branch puts
\* a token into requestJobChan (make(chan struct{}, 1)) if there is room
signalRequest(p) ==
    IF p.requestJobChan < requestJobChanCap
    THEN [p EXCEPT !.requestJobChan = @ + 1]
    ELSE p

\* Client.processJob lines 1139-1149 and 1215-1219, the deferred functions:
\* the output file is removed, the counter goes down and requestJobChan gets
\* a token unless it holds one
processJobReturns(j) ==
    /\ client.exec[j] = "reported"
    /\ client' = [decrementRunningJobs(client) EXCEPT !.exec[j] = "returned",
                                                     !.out[j] = "",
                                                     !.uploaded[j] = FALSE]
    /\ pull' = signalRequest(pull)
    /\ UNCHANGED <<gatewayVars, draft, cache, link, redis>>

\* min of client.go line 1081
Min(a, b) == IF a < b THEN a ELSE b

\* Client.sendRequestJob: the write succeeds while the websocket is up
sendRequestJob == client.connected

\* Client.jobRequestLoop, case <-c.requestJobChan
immediateRequest ==
    /\ pull.requestJobChan > 0
    /\ pull' = IF ~canAcceptJob
               THEN [pull EXCEPT !.requestJobChan = @ - 1]
               ELSE [pull EXCEPT !.requestJobChan = @ - 1,
                                 !.last = IF sendRequestJob THEN "immediate"
                                          ELSE @,
                                 !.backoff = minBackoff,
                                 !.fails = IF sendRequestJob THEN 0
                                           ELSE Min(@ + 1, MaxFails)]
    /\ UNCHANGED <<gatewayVars, draft, client, cache, link, redis>>

\* Client.jobRequestLoop, case <-time.After(backoff)
periodicRequest ==
    /\ pull' = IF ~canAcceptJob
               THEN [pull EXCEPT !.backoff = Min(@ * 2, maxBackoff)]
               ELSE IF sendRequestJob
               THEN [pull EXCEPT !.backoff = minBackoff, !.fails = 0,
                                 !.last = "periodic"]
               ELSE [pull EXCEPT !.backoff = Min(minBackoff * 2, maxBackoff),
                                 !.fails = Min(@ + 1, MaxFails)]
    /\ UNCHANGED <<gatewayVars, draft, client, cache, link, redis>>

NextAgent ==
    \/ connectionLost
    \/ handleJobAssigned
    \/ startProcessJob
    \/ \E j \in AJobs : reportRunning(j)
    \/ \E j \in AJobs, file \in BOOLEAN : executeCommand(j, file)
    \/ \E j \in AJobs : uploadOutput(j)
    \/ \E j \in AJobs, path \in Paths : finishJob(j, path)
    \/ \E j \in AJobs : processJobReturns(j)
    \/ immediateRequest
    \/ periodicRequest

SpecAgent == InitAgent /\ [][NextAgent]_vars

\* The select of jobRequestLoop takes a case that is ready: a token in
\* requestJobChan is received while the timer of the other case is not due.
SpecAgentLive == SpecAgent /\ WF_vars(immediateRequest)

\* ------------------------------------------------- the agent's input cache
\* Client.getCachedInputFile and the two download functions, called by the
\* processForwardJob goroutines of two forward jobs.  The input keys of the
\* jobs end in the same extension.

URLs == {"u1", "u2"}
Callers == {"f1", "f2"}

\* downloadInputToFile line 1362: job_<jobID>_input<ext> in os.TempDir()
tempFile(jobID) == <<"job_", jobID, "_input">>

\* downloadInputToCacheFile lines 1439-1440: input_<sha256(url)><ext> in
\* inputCacheDir; different URLs have different hashes
cacheFile(url) == <<"input_", url>>

FilePaths == {tempFile("forward")} \cup {cacheFile(u) : u \in URLs}

NoFile == [exists |-> FALSE, url |-> "", complete |-> FALSE]
NoEntry == [ok |-> FALSE, fresh |-> FALSE]
Resting == [pc |-> "idle", url |-> "", path |-> <<>>, read |-> ""]

\* Client.inputCacheTTL is 10 minutes (New) or what SetInputCacheTTL was
\* given before Connect; the cache directory and the temp directory hold none
\* of the files.
InitCache ==
    /\ GatewayIdle
    /\ client = NoClient
    /\ pull = NoPull
    /\ link = NoLink
    /\ redis = NoRedis
    /\ \E t \in {"positive", "zero"} :
          cache = [ttl |-> t,
                   inputCache |-> [u \in URLs |-> NoEntry],
                   files |-> [p \in FilePaths |-> NoFile],
                   call |-> [c \in Callers |-> Resting],
                   gets |-> 0, overlap |-> FALSE,
                   fetches |-> [u \in URLs |-> 0],
                   lapses |-> [u \in URLs |-> 0],
                   failed |-> [u \in URLs |-> 0]]

\* getCachedInputFile line 1401 with a comparison that never finds an entry
CacheHitNever(entry) == FALSE

\* getCachedInputFile line 1401: ok && now.Before(entry.expiresAt)
CacheHit(entry) == entry.ok /\ entry.fresh

InGet(c) == cache.call[c].pc \in {"lookup", "fetch", "create", "copy", "record"}

\* processForwardJob line 1598: a forward job in LOCAL_FILE mode calls
\* getCachedInputFile for its input URL
startGet(c, u) ==
    /\ cache.call[c].pc = "idle"
    /\ cache.gets < MaxGets
    /\ cache' = [cache EXCEPT
                   !.call[c] = [Resting EXCEPT !.pc = "lookup", !.url = u],
                   !.gets = @ + 1,
                   !.overlap = @ \/ \E d \in Callers \ {c} : InGet(d)]
    /\ UNCHANGED <<gatewayVars, draft, client, pull, link, redis>>

\* getCachedInputFile lines 1385-1410: without a TTL the call goes to
\* downloadInputToFile(url, "forward", inputKey); with one, the locked look
\* into the map returns the path of an unexpired entry, and deletes an
\* expired entry together with its file
lookup(c) ==
    /\ cache.call[c].pc = "lookup"
    /\ LET u == cache.call[c].url
           entry == cache.inputCache[u]
       IN cache' =
            IF cache.ttl = "zero"
            THEN [cache EXCEPT !.call[c].pc = "fetch",
                               !.call[c].path = tempFile("forward")]
            ELSE IF CacheHit(entry)
            THEN [cache EXCEPT !.call[c].pc = "using",
                               !.call[c].path = cacheFile(u)]
            ELSE IF entry.ok
            THEN [cache EXCEPT !.call[c].pc = "fetch",
                               !.call[c].path = cacheFile(u),
                               !.inputCache[u] = NoEntry,
                               !.files[cacheFile(u)] = NoFile]
            ELSE [cache EXCEPT !.call[c].pc = "fetch",
                               !.call[c].path = cacheFile(u)]
    /\ UNCHANGED <<gatewayVars, draft, client, pull, link, redis>>

\* downloadInputToFile lines 1342-1350, downloadInputToCacheFile lines
\* 1442-1450: the HTTP GET; an error or a status other than 200 ends the
\* call with the error
httpGet(c, ok) ==
    /\ cache.call[c].pc = "fetch"
    /\ LET u == cache.call[c].url
       IN cache' = IF ok
                   THEN [cache EXCEPT !.call[c].pc = "create",
                                      !.fetches[u] = @ + 1]
                   ELSE [cache EXCEPT !.call[c] = Resting,
                                      !.fetches[u] = @ + 1,
                                      !.failed[u] = @ + 1]
    /\ UNCHANGED <<gatewayVars, draft, client, pull, link, redis>>

\* os.Create of lines 1363 and 1452: the file exists and is empty
osCreate(c) ==
    /\ cache.call[c].pc = "create"
    /\ cache' = [cache EXCEPT
                   !.call[c].pc = "copy",
                   !.files[cache.call[c].path] =
                       [exists |-> TRUE, url |-> cache.call[c].url,
                        complete |-> FALSE]]
    /\ UNCHANGED <<gatewayVars, draft, client, pull, link, redis>>

\* io.Copy of lines 1370-1374 and 1458-1461: the body is written in full, or
\* the copy fails and the file is removed
ioCopy(c, ok) ==
    /\ cache.call[c].pc = "copy"
    /\ LET u == cache.call[c].url
           p == cache.call[c].path
       IN cache' =
            IF ~ok
            THEN [cache EXCEPT !.call[c] = Resting,
                               !.files[p] = NoFile,
                               !.failed[u] = @ + 1]
            ELSE [cache EXCEPT
                    !.call[c].pc = IF cache.ttl = "zero" THEN "using"
                                   ELSE "record",
                    !.files[p] = IF cache.files[p].exists
                                 THEN [exists |-> TRUE, url |-> u,
                                       complete |-> TRUE]
                                 ELSE NoFile]
    /\ UNCHANGED <<gatewayVars, draft, client, pull, link, redis>>

\* getCachedInputFile lines 1417-1424: the entry with the new expiry
record(c) ==
    /\ cache.call[c].pc = "record"
    /\ cache' = [cache EXCEPT
                   !.call[c].pc = "using",
                   !.inputCache[cache.call[c].url] =
                       [ok |-> TRUE, fresh |-> TRUE]]
    /\ UNCHANGED <<gatewayVars, draft, client, pull, link, redis>>

\* what os.Open and io.Copy of processForwardJob find at the path
Readable(c) ==
    LET f == cache.files[cache.call[c].path]
    IN f.exists /\ f.complete /\ f.url = cache.call[c].url

\* processForwardJob lines 1609-1625: the file at the returned path is
\* opened and copied into the request body
readInput(c) ==
    /\ cache.call[c].pc = "using"
    /\ cache' = [cache EXCEPT
                   !.call[c].pc = "forwarding",
                   !.call[c].read = IF Readable(c) THEN "whole" ELSE "damaged"]
    /\ UNCHANGED <<gatewayVars, draft, client, pull, link, redis>>

\* processForwardJob line 1604, the deferred cleanup: os.Remove of the temp
\* file when caching is off, nothing for a cached file
cleanup(c) ==
    /\ cache.call[c].pc = "forwarding"
    /\ cache' = [cache EXCEPT
                   !.call[c] = Resting,
                   !.files = IF cache.ttl = "zero"
                             THEN [@ EXCEPT ![cache.call[c].path] = NoFile]
                             ELSE @]
    /\ UNCHANGED <<gatewayVars, draft, client, pull, link, redis>>

\* Time passes the expiresAt of the entry of u.
ttlExpires(u) ==
    /\ cache.inputCache[u].ok
    /\ cache.inputCache[u].fresh
    /\ cache' = [cache EXCEPT !.inputCache[u].fresh = FALSE,
                              !.lapses[u] = @ + 1]
    /\ UNCHANGED <<gatewayVars, draft, client, pull, link, redis>>

NextCache ==
    \/ \E c \in Callers, u \in URLs : startGet(c, u)
    \/ \E c \in Callers : lookup(c)
    \/ \E c \in Callers, ok \in BOOLEAN : httpGet(c, ok)
    \/ \E c \in Callers : osCreate(c)
    \/ \E c \in Callers, ok \in BOOLEAN : ioCopy(c, ok)
    \/ \E c \in Callers : record(c)
    \/ \E c \in Callers : readInput(c)
    \/ \E c \in Callers : cleanup(c)
    \/ \E u \in URLs : ttlExpires(u)

SpecCache == InitCache /\ [][NextCache]_vars

\* ------------------------------------------- the agent's connection set-up
\* Client.Connect, handleRegisterAck and the goroutines that write to the
\* websocket: Connect itself (Register), heartbeatLoop, the jobRequestLoop
\* goroutines, the reader (the FAILED report of a refused JobAssigned) and a
\* job executor.  Every write is a call of Client.writeMessage.

Activities == {"main", "reader", "heartbeat", "pull1", "pull2", "exec"}
PullLoops == {"pull1", "pull2"}

Off == [pc |-> "off", kind |-> ""]
Ready == [pc |-> "idle", kind |-> ""]

\* client.New: no connection, no goroutine
InitConnect ==
    /\ GatewayIdle
    /\ client = NoClient
    /\ pull = NoPull
    /\ cache = NoCache
    /\ redis = NoRedis
    /\ link = [stage |-> "new", writeMu |-> "",
               act |-> [a \in Activities |-> IF a = "main" THEN Ready ELSE Off],
               acks |-> 0, gotOk |-> FALSE, gotRefused |-> FALSE,
               frames |-> <<>>]

\* the frames written and the writes under way stay below MaxWrites
Room ==
    Len(link.frames)
      + Cardinality({a \in Activities : link.act[a].pc \in {"lock", "write"}})
         < MaxWrites

\* the call c.writeMessage(data) by activity a
CallWrite(a, kind) == [link EXCEPT !.act[a] = [pc |-> "lock", kind |-> kind]]

\* Client.Connect lines 814-822: Dial, c.conn = conn, sendRegister
Connect ==
    /\ link.stage = "new"
    /\ link' = [CallWrite("main", "Register") EXCEPT !.stage = "registering"]
    /\ UNCHANGED <<gatewayVars, draft, client, pull, cache, redis>>

\* Client.Connect lines 827-836: go readLoop, go heartbeatLoop
ConnectReturns ==
    /\ link.stage = "registering"
    /\ link.act["main"].pc = "idle"
    /\ link' = [link EXCEPT !.stage = "up",
                            !.act["reader"] = Ready,
                            !.act["heartbeat"] = Ready]
    /\ UNCHANGED <<gatewayVars, draft, client, pull, cache, redis>>

\* Client.writeMessage line 1861 without the mutex
LockFreeAlways(l) == TRUE

\* Client.writeMessage line 1861: c.writeMu.Lock() returns when no other
\* goroutine holds the mutex
LockFree(l) == l.writeMu = ""

\* Client.writeMessage lines 1858-1861: the mutex is taken
writeLock(a) ==
    /\ link.act[a].pc = "lock"
    /\ LockFree(link)
    /\ link' = [link EXCEPT !.writeMu = a, !.act[a].pc = "write"]
    /\ UNCHANGED <<gatewayVars, draft, client, pull, cache, redis>>

\* Client.writeMessage lines 1862-1863: conn.WriteMessage has written the
\* frame, the deferred Unlock runs
writeDone(a) ==
    /\ link.act[a].pc = "write"
    /\ link' = [link EXCEPT
                  !.writeMu = "",
                  !.act[a] = Ready,
                  !.frames = Append(@, [kind |-> link.act[a].kind,
                                        held |-> link.writeMu = a,
                                        ok |-> link.gotOk,
                                        refused |-> link.gotRefused])]
    /\ UNCHANGED <<gatewayVars, draft, client, pull, cache, redis>>

\* Client.heartbeatLoop lines 951-958: the ticker fires, sendHeartbeat
heartbeatTick ==
    /\ link.act["heartbeat"].pc = "idle"
    /\ Room
    /\ link' = CallWrite("heartbeat", "Heartbeat")
    /\ UNCHANGED <<gatewayVars, draft, client, pull, cache, redis>>

\* the jobRequestLoop goroutine that the next `go` statement starts
NextLoop == IF link.act["pull1"].pc = "off" THEN "pull1" ELSE "pull2"

\* Client.readLoop and handleRegisterAck: a RegisterAck frame is read; with
\* success the heartbeat interval is set and a jobRequestLoop is started
handleRegisterAck(success) ==
    /\ link.stage = "up"
    /\ link.act["reader"].pc = "idle"
    /\ link.acks < MaxAcks
    /\ link' = IF success
               THEN [link EXCEPT !.acks = @ + 1, !.gotOk = TRUE,
                                 !.act[NextLoop] = Ready]
               ELSE [link EXCEPT !.acks = @ + 1, !.gotRefused = TRUE]
    /\ UNCHANGED <<gatewayVars, draft, client, pull, cache, redis>>

\* Client.jobRequestLoop: a wake-up at which the agent can accept a job,
\* sendRequestJob
requestJob(p) ==
    /\ link.act[p].pc = "idle"
    /\ Room
    /\ link' = CallWrite(p, "RequestJob")
    /\ UNCHANGED <<gatewayVars, draft, client, pull, cache, redis>>

\* the gateway answers a RequestJob it has received
Requested == \E i \in 1..Len(link.frames) : link.frames[i].kind = "RequestJob"

\* Client.readLoop and handleJobAssigned: a JobAssigned frame is read; the
\* reader reports FAILED itself when the job cannot be accepted, and starts
\* processJob otherwise
readJobAssigned(accept) ==
    /\ link.stage = "up"
    /\ link.act["reader"].pc = "idle"
    /\ Requested
    /\ link.act["exec"].pc = "off"
    /\ Room
    /\ link' = IF accept
               THEN CallWrite("exec", "JobStatus")
               ELSE CallWrite("reader", "JobStatus")
    /\ UNCHANGED <<gatewayVars, draft, client, pull, cache, redis>>

\* Client.processJob: the terminal report after the RUNNING report
reportTerminal ==
    /\ link.act["exec"].pc = "idle"
    /\ Room
    /\ link' = CallWrite("exec", "JobStatus")
    /\ UNCHANGED <<gatewayVars, draft, client, pull, cache, redis>>

NextConnect ==
    \/ Connect
    \/ ConnectReturns
    \/ \E a \in Activities : writeLock(a)
    \/ \E a \in Activities : writeDone(a)
    \/ heartbeatTick
    \/ \E success \in BOOLEAN : handleRegisterAck(success)
    \/ \E p \in PullLoops : requestJob(p)
    \/ \E accept \in BOOLEAN : readJobAssigned(accept)
    \/ reportTerminal

SpecConnect == InitConnect /\ [][NextConnect]_vars

\* ------------------------------------------------------ queue.Queue, twice

\* The two implementations of queue.Queue receive the same calls: queue is
\* InMemoryQueue.items, redis.list the Redis list under the queue's key
\* (left end first).  mem and red are what the latest call returned.

MaxCalls == 5

QueueIDs == JobIDs \cup {""}

ErrQueueEmpty == "queue is empty"
ErrJobNotInQueue == "job not in queue"
ErrEmptyID == "job_id cannot be empty"

Returned(val, err) == [val |-> val, err |-> err]

\* json.Marshal of a job id: a JSON string literal
Marshal(id) == [quoted |-> TRUE, text |-> id]

\* json.Unmarshal of a list element into a string, with the fall-back to the
\* element itself when it is no JSON string
Unmarshal(v) == v.text

\* Redis LPUSH, RPOP, LINDEX key -1, LLEN, LREM key 0 value
LPush(l, v) == <<v>> \o l
RPop(l) == SubSeq(l, 1, Len(l) - 1)
LIndexLast(l) == l[Len(l)]
LLen(l) == Len(l)
LRem(l, v) == SelectSeq(l, LAMBDA x : x # v)

\* queue.InMemoryQueue.Peek and Size
Peek(q) == q[1]
Size(q) == Len(q)

\* queue.InMemoryQueue.Remove: the first item equal to jobID is cut out
Remove(q, id) ==
    LET i == CHOOSE k \in 1..Len(q) :
                /\ q[k] = id
                /\ \A m \in 1..(k - 1) : q[m] # id
    IN SubSeq(q, 1, i - 1) \o SubSeq(q, i + 1, Len(q))

InQueue(q, id) == \E k \in 1..Len(q) : q[k] = id

gatewayRest == <<store, created, registry, conn, connections, h, sent,
                 assigned, events, faults, turnedAway, hist, sendq>>

\* NewInMemoryQueue and NewRedisQueue on an empty key
InitQueue ==
    /\ GatewayIdle
    /\ client = NoClient
    /\ pull = NoPull
    /\ cache = NoCache
    /\ link = NoLink
    /\ redis = [list |-> <<>>, calls |-> 0, twice |-> FALSE,
                mem |-> Returned("", "nil"), red |-> Returned("", "nil")]

Called == redis.calls < MaxCalls

\* Enqueue(ctx, jobID) on both
callEnqueue(id) ==
    /\ Called
    /\ IF id = ""
       THEN /\ UNCHANGED queue
            /\ redis' = [redis EXCEPT !.calls = @ + 1,
                                      !.mem = Returned("", ErrEmptyID),
                                      !.red = Returned("", ErrEmptyID)]
       ELSE /\ queue' = Enqueue(queue, id)
            /\ redis' = [redis EXCEPT !.calls = @ + 1,
                                      !.list = LPush(@, Marshal(id)),
                                      !.twice = @ \/ InQueue(queue, id),
                                      !.mem = Returned("", "nil"),
                                      !.red = Returned("", "nil")]
    /\ UNCHANGED <<gatewayRest, draft, client, pull, cache, link>>

\* Dequeue(ctx) on both
callDequeue ==
    /\ Called
    /\ queue' = IF queue = <<>> THEN queue ELSE Dequeue(queue)
    /\ redis' = [redis EXCEPT
          !.calls = @ + 1,
          !.list = IF @ = <<>> THEN @ ELSE RPop(@),
          !.mem = IF queue = <<>> THEN Returned("", ErrQueueEmpty)
                  ELSE Returned(Head(queue), "nil"),
          !.red = IF redis.list = <<>> THEN Returned("", ErrQueueEmpty)
                  ELSE Returned(Unmarshal(LIndexLast(redis.list)), "nil")]
    /\ UNCHANGED <<gatewayRest, draft, client, pull, cache, link>>

\* Peek(ctx) on both
callPeek ==
    /\ Called
    /\ redis' = [redis EXCEPT
          !.calls = @ + 1,
          !.mem = IF queue = <<>> THEN Returned("", ErrQueueEmpty)
                  ELSE Returned(Peek(queue), "nil"),
          !.red = IF redis.list = <<>> THEN Returned("", ErrQueueEmpty)
                  ELSE Returned(Unmarshal(LIndexLast(redis.list)), "nil")]
    /\ UNCHANGED <<queue, gatewayRest, draft, client, pull, cache, link>>

\* Size(ctx) on both
callSize ==
    /\ Called
    /\ redis' = [redis EXCEPT !.calls = @ + 1,
                              !.mem = Returned(Size(queue), "nil"),
                              !.red = Returned(LLen(redis.list), "nil")]
    /\ UNCHANGED <<queue, gatewayRest, draft, client, pull, cache, link>>

\* Remove(ctx, jobID) on both
callRemove(id) ==
    /\ Called
    /\ IF id = ""
       THEN /\ UNCHANGED queue
            /\ redis' = [redis EXCEPT !.calls = @ + 1,
                                      !.mem = Returned("", ErrEmptyID),
                                      !.red = Returned("", ErrEmptyID)]
       ELSE LET removed == LLen(redis.list) - LLen(LRem(redis.list, Marshal(id)))
            IN /\ queue' = IF InQueue(queue, id) THEN Remove(queue, id) ELSE queue
               /\ redis' = [redis EXCEPT
                     !.calls = @ + 1,
                     !.list = LRem(@, Marshal(id)),
                     !.mem = IF InQueue(queue, id) THEN Returned("", "nil")
                             ELSE Returned("", ErrJobNotInQueue),
                     !.red = IF removed = 0 THEN Returned("", ErrJobNotInQueue)
                             ELSE Returned("", "nil")]
    /\ UNCHANGED <<gatewayRest, draft, client, pull, cache, link>>

NextQueue ==
    \/ \E id \in QueueIDs : callEnqueue(id)
    \/ callDequeue
    \/ callPeek
    \/ callSize
    \/ \E id \in QueueIDs : callRemove(id)

SpecQueue == InitQueue /\ [][NextQueue]_vars


\* ------------------------------------------------------------------ claims

\* the edges of the transition table, as the specification lists them
StatusEdge(s, t) ==
    \/ s = "PENDING"  /\ t \in {"ASSIGNED", "CANCELED"}
    \/ s = "ASSIGNED" /\ t \in {"RUNNING", "CANCELED", "LOST"}
    \/ s = "RUNNING"  /\ t \in {"SUCCEEDED", "FAILED", "CANCELED", "LOST"}

TerminalStatuses == {"SUCCEEDED", "FAILED", "CANCELED", "LOST"}

Existing == 1..created

\* a RequestJob handler is between its Dequeue and its return
InDispatch(c) ==
    \/ h[c].pc \in {"rj_get", "rj_commit", "rj_output", "rj_send",
                     "rj_revert", "rj_requeue"}
    \/ h[c].pc \in {"us_read", "us_write"} /\ h[c].site \in {"assign", "rollback"}

Dispatching(j) == \E c \in Conns : InDispatch(c) /\ h[c].job = j

\* jobs that occupy agent a
ActiveJobs(a) ==
    {j \in Existing : store[j].status \in {"ASSIGNED", "RUNNING"} /\ store[j].agent = a}

\* C1: every change of a job's stored status is an edge of the transition
\* table (PENDING->{ASSIGNED,CANCELED}, ASSIGNED->{RUNNING,CANCELED,LOST},
\* RUNNING->{SUCCEEDED,FAILED,CANCELED,LOST}), under every interleaving.
C1_StatusChangesFollowEdges ==
    [][\A j \in Jobs :
         store'[j].status # store[j].status
            => StatusEdge(store[j].status, store'[j].status)]_vars

\* C2: once a job's stored status is SUCCEEDED, FAILED, CANCELED or LOST it
\* keeps that exact status in every later state.
C2_TerminalIsFinal ==
    [][\A j \in Jobs :
         store[j].status \in TerminalStatuses
            => store'[j].status = store[j].status]_vars

\* C3: over the whole run and across all connections, at most one JobAssigned
\* frame is placed on a send buffer for any job id.
C3_AtMostOneJobAssigned == \A j \in Jobs : Len(assigned[j]) <= 1

\* C3 witness: a job has been dispatched, its single JobAssigned emitted.
C3_Witness ==
    \E j \in Existing : Len(assigned[j]) = 1 /\ store[j].status = "ASSIGNED"

\* C4: for every registered agent, the jobs stored as ASSIGNED or RUNNING on
\* it never outnumber its max_concurrency.
C4_ActiveJobsWithinMaxConcurrency ==
    \A a \in Agents :
       registry[a].present => Cardinality(ActiveJobs(a)) <= registry[a].max

\* C5: every registry entry satisfies 0 <= running_jobs <= max_concurrency.
C5_RunningJobsInRange ==
    \A a \in Agents :
       registry[a].present
          => registry[a].running >= 0 /\ registry[a].running <= registry[a].max

\* C6: for an agent that stays registered and online, the step that emits a
\* JobAssigned to agent A raises A's registry running_jobs by exactly one, and
\* the release that follows the accepted terminal status of a job whose
\* JobAssigned was emitted lowers it by exactly one.
C6_CountedExactlyOnce ==
    [][\A c \in Conns :
         LET a == h[c].agent IN
         /\ (rjSend(c) /\ h[c].live) =>
               registry'[a].running = registry[a].running + 1
         /\ (jsRelease(c) /\ GetAgent(registry, a)
                          /\ Len(assigned[h[c].job]) = 1) =>
               registry'[a].running = registry[a].running - 1]_vars

\* C7: whenever no RequestJob handler is inside its commit sequence for job
\* J, J's assigned_agent_id is non-empty exactly if J's status is not PENDING;
\* in particular never ASSIGNED with an empty assigned_agent_id.
C7_AssignmentMatchesStatus ==
    \A j \in Existing :
       ~Dispatching(j) => ((store[j].agent # "") <=> (store[j].status # "PENDING"))

\* C8: when the handler returns after update_output or the marshal failed
\* (update_assignment and update_status(ASSIGNED) having succeeded), the job
\* is PENDING with empty assigned_agent_id and lease_id, its id is back in
\* the queue, no JobAssigned was emitted and the registry is unchanged.
C8_FullRollback ==
    [][\A c \in Conns :
         (rjReEnqueue(c) /\ h[c].rolled) =>
            LET j == h[c].job IN
            /\ store'[j].status = "PENDING"
            /\ store'[j].agent = "" /\ store'[j].lease = ""
            /\ \E i \in 1..Len(queue') : queue'[i] = j
            /\ assigned'[j] = <<>>
            /\ registry' = registry]_vars

Refused(a) ==
    \/ ~registry[a].present
    \/ ~registry[a].fresh
    \/ registry[a].paused
    \/ registry[a].running >= registry[a].max

\* C10: a RequestJob from an agent that is absent from the registry
\* (unregistered or heartbeat-stale), paused or at capacity emits nothing and
\* leaves the queue, every job record and the registry unchanged.
C10_RefusedRequestChangesNothing ==
    [][\A c \in Conns, a \in Agents : \A payload \in {"", a} :
         (handleRequestJob(c, a, payload) /\ Refused(a)) =>
            /\ h'[c].pc = "idle"
            /\ sent' = sent /\ assigned' = assigned
            /\ queue' = queue /\ store' = store /\ registry' = registry]_vars

\* C10 witness: an agent holding as many jobs as its max_concurrency asked
\* for another one while a job was waiting, and was refused.
C10_Witness ==
    \E a \in Agents :
       /\ turnedAway = a
       /\ GetAgent(registry, a) /\ ~registry[a].paused
       /\ registry[a].running >= registry[a].max
       /\ queue # <<>>
       /\ \A c \in Conns : h[c].pc = "idle"

\* C11: a RequestJob whose envelope agent_id is not the agent_id bound to the
\* connection it arrived on (an unbound connection included) is dropped: the
\* handler returns without dequeuing, and every JobAssigned emitted went out
\* on a connection bound to the agent it was assigned to.
C11_ForeignRequestDropped ==
    [][\A c \in Conns, env \in Agents : \A payload \in {"", env} :
         (handleRequestJob(c, env, payload) /\ conn[c].AgentID # env) =>
            h'[c].pc = "idle"]_vars

\* C12: a JobStatus frame whose sender is not the job's assigned_agent_id, or
\* whose attempt_id is not the stored attempt_id, is discarded: the handler
\* returns at once and no job record and no registry entry changes.
C12_ForeignStatusDiscarded ==
    [][(events' # events /\ hist'.foreign # "") =>
          /\ h' = h
          /\ store' = store
          /\ registry' = registry
          /\ sent' = sent]_vars

\* C12 witness: a job is assigned to one agent and a report on it sent by
\* another agent over its own connection has just been discarded.
C12_Witness ==
    /\ hist.foreign = "owner"
    /\ created = 1 /\ store[1].status = "ASSIGNED" /\ store[1].agent = "a1"
    /\ \E c \in Conns : conn[c].AgentID = "a2"
    /\ \A c \in Conns : h[c] = Idle

\* C13: when a terminal JobStatus has been applied (its terminal status
\* written, its handler returned) and the same frame is delivered again as the
\* very next frame (same job, attempt, status, output_key and output), no
\* step of the second handling changes any field of the job record or the
\* sender's registry entry.
C13_RedeliveryChangesNothing ==
    [][\A c \in Conns :
         (h[c].redo /\ h'[c] # h[c]) =>
            /\ store'[h[c].job] = store[h[c].job]
            /\ registry'[h[c].agent] = registry[h[c].agent]]_vars

\* C14: when the assigned agent reports SUCCEEDED for a RUNNING job it was
\* sent, with a non-empty output_key that is not the stored one, the handler
\* writes FAILED
\* (never SUCCEEDED), leaves the stored output_key alone and lowers the
\* sender's registry running_jobs by one.
C14_OutputKeyMismatchFails ==
    [][\A c \in Conns :
         (/\ h[c].mismatch /\ h[c].was = "RUNNING"
          /\ Len(assigned[h[c].job]) = 1
          /\ h'[c] # h[c]) =>
            LET j == h[c].job
                a == h[c].agent
            IN /\ store'[j].outputKey = store[j].outputKey
               /\ h[c].pc = "us_read" => h'[c].pc = "us_write"
               /\ h[c].pc = "us_write" => store'[j].status = "FAILED"
               /\ h[c].pc = "js_release" =>
                     registry'[a].running = registry[a].running - 1]_vars

\* C15: a JobStatus whose status cannot be reached by one edge from the job's
\* current status (SUCCEEDED or FAILED for a job that is still ASSIGNED) is
\* ignored as a whole: the handler's write of stdout/stderr leaves the job
\* record as it was.
C15_UnreachableStatusIgnored ==
    [][\A c \in Conns :
         (/\ jsUpdateStdoutStderr(c)
          /\ Len(assigned[h[c].job]) = 1
          /\ ~CanTransitionTo(store[h[c].job].status, h[c].target)) =>
            store'[h[c].job] = store[h[c].job]]_vars

C17_OnlyStaleSkipped ==
    [][\A c \in Conns :
         (h[c].pc = "rj_get" /\ h'[c] # h[c] /\ h'[c].pc # "rj_commit") =>
            store[h[c].job].status # StatusPending]_vars

\* the number of places of queue q that hold id j
Occurrences(q, j) == Cardinality({i \in 1..Len(q) : q[i] = j})

\* C18: when the submission API answers 201 for a job, the job is in the
\* store with status PENDING and its id is in the pending queue exactly once.
C18_CreatedMeansQueued ==
    [][HandleCreateJob =>
          /\ store'[created'].status = StatusPending
          /\ Occurrences(queue', created') = 1]_vars

\* C19: UpdateStatus is atomic with respect to concurrent writers: of two
\* calls that each target a different terminal status for a RUNNING job at
\* most one succeeds, so a call that validated its target against RUNNING
\* never writes over the terminal status another call has stored meanwhile.
C19_OneTerminalWriteFromRunning ==
    [][\A c \in Conns :
         (/\ UpdateStatusExec(c)
          /\ h[c].was = StatusRunning
          /\ IsTerminal(h[c].target)) =>
            store[h[c].job].status \in {StatusRunning, h[c].target}]_vars

\* C20: an agent whose heartbeat ran out (60 s) is absent for the registry
\* lookup until a Register or Heartbeat of that agent is processed: a
\* RequestJob naming it in between is refused and goes no further.
C20_StaleAgentRefused ==
    [][\A a \in hist.stale : \A c \in Conns, payload \in {"", a} :
         handleRequestJob(c, a, payload) => h'[c].pc = "idle"]_vars

\* C21: when the connection of an agent closes, the registry entry of its
\* agent_id is removed, and every job record (those ASSIGNED or RUNNING on
\* that agent included) and the queue are left exactly as they were.
C21_CloseRemovesOnlyRegistryEntry ==
    [][\A c \in Conns :
         (conn[c].open /\ ~conn'[c].open /\ conn[c].AgentID # "") =>
            /\ ~registry'[conn[c].AgentID].present
            /\ store' = store
            /\ queue' = queue]_vars

\* the connection of a1 closed while job 1 was ASSIGNED to it
C21_Witness ==
    /\ ~conn["c1"].open /\ conn["c1"].AgentID = "a1"
    /\ ~registry["a1"].present
    /\ created = 1
    /\ store[1].status = StatusAssigned /\ store[1].agent = "a1"
    /\ Len(assigned[1]) = 1
    /\ \A c \in Conns : h[c] = Idle

\* C22: a connection's send buffer never holds more than 256 frames, and a
\* handler that finds it full closes the connection: no reader is ever left
\* waiting in a send on a connection that is still open.
C22_FullBufferClosesConnection ==
    \A c \in Conns :
       /\ sendq[c] <= SendChanCap
       /\ h[c].pc = "send" => ~conn[c].open

\* the job of the submission is in the store
Stored == draft.stage \in {"stored", "dispatched"}

\* C23: for every job in the store, at creation and after a dispatch,
\* output_prefix is exactly "jobs/" + job_id + "/" + attempt_id + "/",
\* whatever output_prefix was submitted.
C23_OutputPrefixCanonical ==
    Stored => draft.OutputPrefix =
                 <<"jobs/", draft.JobID, "/", ToString(draft.AttemptID), "/">>

\* C24: for every job in the store, a non-empty output_key starts with the
\* job's output_prefix, right after creation and after a dispatch.
C24_OutputKeyUnderPrefix ==
    (Stored /\ draft.OutputKey # <<>>) =>
        /\ Len(draft.OutputKey) >= Len(draft.OutputPrefix)
        /\ \A i \in 1..Len(draft.OutputPrefix) :
              draft.OutputKey[i] = draft.OutputPrefix[i]

\* the processJob goroutines that have not returned
Executing ==
    {j \in AJobs : client.exec[j] \in {"started", "working", "executed",
                                       "reported"}}

\* C25: running_jobs stays within [0, max_concurrency] and at most
\* max_concurrency executors run at once, however JobAssigned frames and job
\* completions interleave; a JobAssigned handled while the agent is paused
\* or at capacity starts no executor and leaves running_jobs alone, and an
\* executor lowers running_jobs by one when it returns, which is the only
\* way the counter goes down.
C25_RunningJobsWithinMaxConcurrency ==
    /\ [](/\ client.runningJobs \in 0..client.maxConcurrency
          /\ Cardinality(Executing) <= client.maxConcurrency)
    /\ [][/\ (client'.arrived # client.arrived /\ ~canAcceptJob)
                => /\ client'.runningJobs = client.runningJobs
                   /\ client'.exec = client.exec
                   /\ client'.reader = 0
          /\ \A j \in AJobs :
                (client.exec[j] = "reported" /\ client'.exec[j] = "returned")
                   => client'.runningJobs = client.runningJobs - 1
          /\ client'.runningJobs < client.runningJobs
                => \E j \in AJobs : /\ client.exec[j] = "reported"
                                    /\ client'.exec[j] = "returned"]_vars

\* a frame was refused at capacity, an executor has returned and another
\* one fills the agent again
C25_Witness ==
    /\ ~client.paused
    /\ client.runningJobs = client.maxConcurrency
    /\ Cardinality(Executing) = client.maxConcurrency
    /\ \E j \in AJobs : client.exec[j] = "returned"
    /\ \E j \in AJobs : /\ j <= client.arrived /\ client.reader # j
                        /\ client.exec[j] = "none"
                        /\ client.status[j] = <<StatusFailed>>

\* the terminal JobStatus frames the agent has sent for job j
TerminalSent(j) ==
    {i \in 1..Len(client.status[j]) :
        client.status[j][i] \in {StatusSucceeded, StatusFailed}}

\* the agent is through with the JobAssigned of job j: it refused the frame,
\* or the executor has passed its return statement
Through(j) ==
    \/ j <= client.arrived /\ client.reader # j /\ client.exec[j] = "none"
    \/ client.exec[j] \in {"reported", "returned"}

\* C26: for every JobAssigned the agent has received it sends one terminal
\* JobStatus (SUCCEEDED or FAILED), whichever way the execution goes, and
\* nothing for the job after it: once the agent is through with the frame
\* exactly one terminal status has been sent, and a terminal status is
\* always the last frame of its job.
C26_ExactlyOneTerminalStatus ==
    \A j \in AJobs :
        /\ Cardinality(TerminalSent(j)) <= 1
        /\ TerminalSent(j) \subseteq {Len(client.status[j])}
        /\ Through(j) => Cardinality(TerminalSent(j)) = 1

\* caller c leaves the locked look into the map
Looked(c) == cache.call[c].pc = "lookup" /\ cache'.call[c].pc # "lookup"

\* C27: with a TTL above zero, a get that finds an unexpired entry for its
\* URL returns the entry's path without a fetch and without touching map or
\* files; a get that finds an expired entry removes the entry and its file
\* and goes on to fetch, and the entry it records afterwards is unexpired.
\* So gets that follow one another cause one fetch per URL, plus one for
\* every expiry and every failed download.
C27_CachedWithinTTL ==
    /\ [][\A c \in Callers :
            LET u == cache.call[c].url
            IN /\ (Looked(c) /\ cache.ttl = "positive"
                      /\ cache.inputCache[u].ok /\ cache.inputCache[u].fresh)
                    => /\ cache'.call[c].pc = "using"
                       /\ cache'.call[c].path = cacheFile(u)
                       /\ cache'.fetches = cache.fetches
                       /\ cache'.files = cache.files
                       /\ cache'.inputCache = cache.inputCache
               /\ (Looked(c) /\ cache.ttl = "positive"
                      /\ cache.inputCache[u].ok /\ ~cache.inputCache[u].fresh)
                    => /\ cache'.call[c].pc = "fetch"
                       /\ ~cache'.inputCache[u].ok
                       /\ ~cache'.files[cacheFile(u)].exists
               /\ (cache.call[c].pc = "record" /\ cache'.call[c].pc # "record")
                    => /\ cache'.inputCache[u].ok
                       /\ cache'.inputCache[u].fresh]_vars
    /\ [](cache.ttl = "positive" /\ ~cache.overlap =>
            \A u \in URLs :
               cache.fetches[u] <= 1 + cache.lapses[u] + cache.failed[u])

\* three gets for u1, one after the other: a download, after the expiry a
\* second download, then a hit
C27_Witness ==
    /\ cache.ttl = "positive"
    /\ ~cache.overlap
    /\ cache.gets = 3
    /\ cache.fetches = [u \in URLs |-> IF u = "u1" THEN 2 ELSE 0]
    /\ cache.lapses["u1"] = 1
    /\ cache.failed["u1"] = 0
    /\ cache.inputCache["u1"].fresh
    /\ \E c \in Callers : /\ cache.call[c].pc = "using"
                          /\ cache.call[c].url = "u1"
                          /\ \A d \in Callers \ {c} : cache.call[d].pc = "idle"

\* C28: however the get calls for a URL interleave, failed downloads
\* included, an unexpired entry of the cache map always has its file: the
\* file at the entry's path exists and holds the whole download of the URL,
\* so it is never removed or cut short while the entry is within its TTL.
C28_UnexpiredEntryHasWholeFile ==
    cache.ttl = "positive" =>
       \A u \in URLs :
          (cache.inputCache[u].ok /\ cache.inputCache[u].fresh)
             => /\ cache.files[cacheFile(u)].exists
                /\ cache.files[cacheFile(u)].complete
                /\ cache.files[cacheFile(u)].url = u

\* C29: with a TTL of zero or less every get downloads into a temp file of
\* its own: two calls in progress never have the same path, so the file a
\* forward job was handed is, until the job has read it, neither written
\* over by the download of another job nor removed by another job's cleanup.
C29_TempFileOfItsOwn ==
    cache.ttl = "zero" =>
       /\ \A c, d \in Callers :
             (c # d /\ cache.call[c].path # <<>> /\ cache.call[d].path # <<>>)
                => cache.call[c].path # cache.call[d].path
       /\ \A c \in Callers :
             /\ cache.call[c].pc = "using" => Readable(c)
             /\ cache.call[c].read # "damaged"

\* the pull loop woke up and sent, or tried to send, a RequestJob
Woke == pull' # pull /\ client' = client

\* C30: the backoff of the pull loop always lies in [500 ms, 30 s]; a
\* RequestJob that was sent sets it to 500 ms; a send that failed doubles it
\* (at most 30 s), and so does a timer wake-up at which the agent cannot
\* accept a job; after k failed sends in a row it is min(500 ms * 2^k, 30 s).
C30_BackoffDoublesOnFailure ==
    /\ [](pull.backoff \in minBackoff..maxBackoff)
    /\ [][/\ (Woke /\ canAcceptJob /\ sendRequestJob)
               => pull'.backoff = minBackoff
          /\ (Woke /\ ~canAcceptJob
                /\ pull'.requestJobChan = pull.requestJobChan)
               => pull'.backoff = Min(pull.backoff * 2, maxBackoff)
          /\ pull'.fails = pull.fails + 1
               => /\ pull'.backoff = Min(pull.backoff * 2, maxBackoff)
                  /\ pull'.backoff =
                        Min(minBackoff * 2 ^ pull'.fails, maxBackoff)]_vars

\* executor j passes its deferred function
Returns(j) == client.exec[j] = "reported" /\ client'.exec[j] = "returned"

\* C31: the signal to the pull loop never holds a finishing executor up and
\* at most one trigger is pending, however many jobs finish together: an
\* executor that has reported can always return, and after its return
\* requestJobChan holds exactly one token.  A pending trigger is always
\* received, and when it is received on a connected agent that can accept a
\* job the RequestJob goes out in that step, not at the next timer.
C31_ImmediateTrigger ==
    /\ [](/\ pull.requestJobChan <= requestJobChanCap
          /\ \A j \in AJobs :
                client.exec[j] = "reported" => ENABLED processJobReturns(j))
    /\ [][/\ \A j \in AJobs : Returns(j) => pull'.requestJobChan = 1
          /\ (pull'.requestJobChan < pull.requestJobChan
                /\ canAcceptJob /\ sendRequestJob)
               => /\ pull'.last = "immediate"
                  /\ pull'.backoff = minBackoff]_vars
    /\ (pull.requestJobChan > 0 ~> pull.requestJobChan = 0)

\* two executors have returned and the trigger was answered with a
\* RequestJob
C31_Witness ==
    /\ Cardinality({j \in AJobs : client.exec[j] = "returned"}) >= 2
    /\ client.connected /\ canAcceptJob
    /\ pull.requestJobChan = 0
    /\ pull.last = "immediate"

\* the activities inside conn.WriteMessage
Writing == {a \in Activities : link.act[a].pc = "write"}

\* C32: on the agent at most one activity (Connect, the heartbeat loop, a
\* pull loop, the reader or a job executor reporting a status) is inside
\* the frame write of the connection at any time, and every frame is written
\* by an activity that holds the write mutex.
C32_WritesSerialized ==
    /\ Cardinality(Writing) <= 1
    /\ \A a \in Writing : link.writeMu = a
    /\ \A i \in 1..Len(link.frames) : link.frames[i].held

\* the heartbeat loop, a pull loop and the executor want to write at the
\* same time: one is inside the write, the others wait for the mutex
C32_Witness ==
    /\ Cardinality(Writing) = 1
    /\ Cardinality({a \in Activities : link.act[a].pc = "lock"}) >= 2
    /\ \E i \in 1..Len(link.frames) : link.frames[i].kind = "Register"

\* C38: the agent writes no RequestJob and no Heartbeat before it has read a
\* RegisterAck with success = true, writes no RequestJob after it has read a
\* RegisterAck with success = false, and runs at most one pull loop on its
\* connection, however many RegisterAck frames it reads.
C38_NothingBeforeRegisterAck ==
    /\ \A i \in 1..Len(link.frames) :
          /\ link.frames[i].kind \in {"RequestJob", "Heartbeat"}
                => link.frames[i].ok
          /\ link.frames[i].kind = "RequestJob" => ~link.frames[i].refused
    /\ Cardinality({p \in PullLoops : link.act[p].pc # "off"}) <= 1

\* executor j makes a report in this step
Reports(j) == Len(client'.reports[j]) > Len(client.reports[j])

\* C33: the reports of an accepted job are RUNNING first and then exactly
\* one terminal report: nothing before RUNNING, the terminal report made by
\* the time the executor returns, nothing after it.  A SUCCEEDED report
\* carries an output_key only if the upload to the signed output URL had
\* completed when the report was made, and an empty output_key whenever the
\* command produced no output file.
C33_RunningThenOneTerminal ==
    /\ [](\A j \in AJobs :
            client.exec[j] # "none" =>
               LET r == client.reports[j]
               IN /\ Len(r) <= 2
                  /\ Len(r) >= 1 => r[1].status = StatusRunning
                  /\ Len(r) = 2 => r[2].status \in {StatusSucceeded, StatusFailed}
                  /\ client.exec[j] = "started" => Len(r) = 0
                  /\ client.exec[j] \in {"working", "executed"} => Len(r) = 1
                  /\ client.exec[j] \in {"reported", "returned"} => Len(r) = 2)
    /\ [][\A j \in AJobs :
            LET r == client'.reports[j]
            IN (Reports(j) /\ r[Len(r)].status = StatusSucceeded)
                  => /\ r[Len(r)].key # "" => client.uploaded[j]
                     /\ client.out[j] = "none" => r[Len(r)].key = ""]_vars

\* one job succeeded with its output uploaded and its key reported, another
\* succeeded without an output file and reported no key
C33_Witness ==
    \E j, k \in AJobs :
       /\ client.reports[j] = <<[status |-> StatusRunning, key |-> ""],
                                [status |-> StatusSucceeded, key |-> "key"]>>
       /\ client.reports[k] = <<[status |-> StatusRunning, key |-> ""],
                                [status |-> StatusSucceeded, key |-> ""]>>

\* the terminal reports the agent has made for job j
TerminalReported(j) ==
    {i \in 1..Len(client.reports[j]) :
        client.reports[j][i].status \in {StatusSucceeded, StatusFailed}}

\* C26 (amended): for every JobAssigned the agent has received it makes one
\* terminal report (SUCCEEDED or FAILED), whichever way the execution goes,
\* and no report for the job after it.  The frame of a report is written
\* once: at most one terminal JobStatus is sent for a job, it is the last
\* frame of the job, and it is sent whenever the websocket takes the write;
\* a report whose write fails is not sent again.
C26_OneTerminalReport ==
    \A j \in AJobs :
        /\ Cardinality(TerminalReported(j)) <= 1
        /\ TerminalReported(j) \subseteq {Len(client.reports[j])}
        /\ Through(j) => Cardinality(TerminalReported(j)) = 1
        /\ Cardinality(TerminalSent(j)) <= 1
        /\ TerminalSent(j) \subseteq {Len(client.status[j])}
        /\ (Through(j) /\ client.connected) => Cardinality(TerminalSent(j)) = 1

\* one job was reported and its terminal status sent; another was reported
\* after the websocket broke and no terminal status of it was sent
C26_Witness ==
    \E j, k \in AJobs :
       /\ Through(j) /\ Cardinality(TerminalSent(j)) = 1
       /\ Through(k) /\ Cardinality(TerminalReported(k)) = 1
       /\ TerminalSent(k) = {}
       /\ client.exec[k] \in {"reported", "returned"}

\* the reader of connection c handles a SUCCEEDED or FAILED JobStatus that
\* came from the job's assigned agent with the stored attempt_id while the
\* job was not terminal; the job's JobAssigned has been sent, once
TerminalDelivered(c) ==
    /\ h[c].pc \in {"js_stdout", "us_read", "us_write", "js_release"}
    /\ h[c].frame.ps \in {StatusSucceeded, StatusFailed}
    /\ Len(assigned[h[c].job]) = 1

\* C34: a SUCCEEDED or FAILED JobStatus of the assigned agent (stored
\* attempt_id) for a job that is not terminal makes the stored status
\* terminal and releases the capacity the assignment took in the registry:
\* the handler's status write is let through, writes a terminal status, is
\* followed by the release, and the release lowers the sender's running_jobs
\* by one.  This holds for a job that is RUNNING and for one that is still
\* ASSIGNED (the FAILED report of an agent that refused the JobAssigned).
C34_TerminalStatusApplied ==
    [][\A c \in Conns :
         (TerminalDelivered(c) /\ h'[c] # h[c]) =>
            LET j == h[c].job
                a == h[c].agent
            IN /\ h[c].pc = "us_read" => h'[c].pc = "us_write"
               /\ h[c].pc = "us_write" => /\ IsTerminal(store'[j].status)
                                          /\ h'[c].pc = "js_release"
               /\ h[c].pc = "js_release" =>
                     registry'[a].running = registry[a].running - 1]_vars

\* C35: no PENDING job is stranded: in every state, each job whose stored
\* status is PENDING and that no RequestJob handler holds (between its
\* Dequeue and its return) has its id in the queue, where the next
\* RequestJob of an eligible agent finds it.
C35_PendingIsQueued ==
    \A j \in Existing :
       (store[j].status = StatusPending /\ ~Dispatching(j)) =>
          Occurrences(queue, j) >= 1

\* C36: while an open connection is bound to agent id A (its latest accepted
\* Register named A), the registry holds an entry for A and the connection
\* map maps A to an open connection; the close of an older connection bound
\* to A takes neither away from a newer one.
C36_BoundAgentRegistered ==
    \A c \in Conns :
       (conn[c].open /\ conn[c].AgentID # "") =>
          LET a == conn[c].AgentID
          IN /\ registry[a].present
             /\ connections[a] # NoConn
             /\ conn[connections[a]].open

\* the ids a Redis list holds, in the order Dequeue hands them out
InOrderOfDequeue(l) == [k \in 1..Len(l) |-> Unmarshal(l[Len(l) + 1 - k])]

\* C37: the in-memory queue and the Redis-backed queue are observationally
\* equivalent: after every sequence of enqueue, dequeue, peek, size and
\* remove calls, also with an id enqueued more than once, the latest call
\* returned the same on both and both hold the same ids in the same order.
C37_QueuesEquivalent ==
    /\ redis.mem = redis.red
    /\ queue = InOrderOfDequeue(redis.list)

====
